---------------------------- MODULE Spec2Model ----------------------------
(***************************************************************************)
(* Model of the Spotiviz preprocessing core:                               *)
(*   - the skip classifier  (spotiviz/analysis/process/skips.py)           *)
(*   - the calendar builder (spotiviz/projects/preprocess.py)              *)
(*   - the date helpers     (spotiviz/projects/utils.py)                   *)
(*   - determine_skips on a whole project, in one transaction             *)
(*   - the download date   (projects/structure/spotify_download.py)       *)
(*   - the raw listens and their cleaning (structure/streaming_history.py *)
(*     and the SQL scripts preprocess.main executes)                      *)
(*   - create_project       (spotiviz/projects/manager.py, checks.py)      *)
(*   - save() of a download, sqlite3 version (projects/spotifyDownload.py) *)
(*   - one pass of preprocess.main, step by step                           *)
(*   - the downloads list of the project window (gui/windows/project.py)   *)
(*                                                                         *)
(* Python's Optional[T] is modelled as a sequence of length 0 or 1:        *)
(* None is << >> and a value x is << x >>.                                 *)
(***************************************************************************)
EXTENDS Integers, Sequences, FiniteSets, TLC

VARIABLES
    durations,          \* the List[TrackLengths] of one track
    pc,                 \* position inside _determine_skips_for_track
    any_non_skips,      \* local of _determine_skips_for_track
    shortest_non_skip,  \* local of _determine_skips_for_track (Optional[int])
    runs,               \* number of classifier runs started on the track
    first_run,          \* labels returned by the first run (history)
    StreamingHistory,   \* end_time values of the StreamingHistory table
    download_dates,     \* Downloads.download_date, in table order
    ListenDates,        \* rows of the ListenDates table
    cal_pc,             \* position inside preprocess.main (calendar steps)
    this_date,          \* argument of a direct is_date_missing call
    result,             \* Optional[bool] returned by that call
    config_keys,        \* keys present in ProjectConfig.properties
    committed_tl,       \* TrackLengths rows as committed in the database
    session_tl,         \* TrackLengths objects held by determine_skips' session
    todo,               \* track groups the loop of determine_skips has left
    proj_pc,            \* position inside determine_skips
    user_date,          \* date the SpotifyDownload was constructed with
    self_date,          \* SpotifyDownload.date
    stored_date,        \* Downloads.download_date of the row of this download
    StreamingHistoryRaw, \* end_time of the raw listens of this download
    dl_pc,              \* position in the life of the SpotifyDownload
    committed_dates,    \* ListenDates rows a new session reads from the database
    batches,            \* the listens of the streaming history files of a project
    supplied,           \* the files saved so far, in the order of saving
    raw_listens,        \* rows of the StreamingHistoryRaw table
    Artists,            \* names of the Artists table, by id
    Tracks,             \* rows of the Tracks table, by id
    TrackLengths,       \* rows of the TrackLengths table
    canonical,          \* rows of the StreamingHistory table
    dd_pc,              \* position in loading and cleaning the listens
    Projects,           \* rows of the Projects table of the program database
    files,              \* the project database files on disk, each with the project it was set up for
    mgr_name,           \* name argument of the last create_project call
    mgr_path,           \* database_path argument of the last create_project call
    mgr_result,         \* how the last create_project call ended
    mgr_calls,          \* number of create_project calls made
    disk,               \* the streaming history file each download directory holds
    Downloads,          \* rows of the Downloads table (sqlite3 version)
    StreamingHistories, \* rows of the StreamingHistories table
    raw_streams,        \* rows of the StreamingHistoryRaw table (sqlite3 version)
    sv_path,            \* path of the download of the last save() call
    sv_result,          \* how the last save() call ended
    sv_calls,           \* number of save() calls made
    main_pc,            \* the step preprocess.main is about to run
    stage_log,          \* the steps of preprocess.main that have finished, in order
    lyt_downloads_list, \* items of the layout of download buttons: the path of each button, then the stretch
    downloads,          \* the list of downloads given to update_downloads_list, by path
    btn_index,          \* btn_index of update_downloads_list
    dwn_index,          \* dwn_index of update_downloads_list
    gui_pc,             \* position of the project window body
    gui_calls           \* number of refresh() calls made

vars == << durations, pc, any_non_skips, shortest_non_skip, runs, first_run,
           StreamingHistory, download_dates, ListenDates, cal_pc,
           this_date, result,
           config_keys, committed_tl, session_tl, todo, proj_pc,
           user_date, self_date, stored_date, StreamingHistoryRaw, dl_pc,
           committed_dates,
           batches, supplied, raw_listens, Artists, Tracks, TrackLengths,
           canonical, dd_pc,
           Projects, files, mgr_name, mgr_path, mgr_result, mgr_calls,
           disk, Downloads, StreamingHistories, raw_streams, sv_path,
           sv_result, sv_calls,
           main_pc, stage_log,
           lyt_downloads_list, downloads, btn_index, dwn_index, gui_pc, gui_calls >>

skip_vars == << durations, pc, any_non_skips, shortest_non_skip, runs,
                first_run >>
cal_vars == << StreamingHistory, download_dates, ListenDates, cal_pc >>
date_vars == << this_date, result >>
proj_vars == << config_keys, committed_tl, session_tl, todo, proj_pc >>
dl_vars == << user_date, self_date, stored_date, StreamingHistoryRaw, dl_pc >>
db_vars == << committed_dates >>
dd_vars == << batches, supplied, raw_listens, Artists, Tracks, TrackLengths,
             canonical, dd_pc >>
mgr_vars == << Projects, files, mgr_name, mgr_path, mgr_result, mgr_calls >>
sv_vars == << disk, Downloads, StreamingHistories, raw_streams, sv_path,
             sv_result, sv_calls >>

main_vars == << main_pc, stage_log >>

gui_vars == << lyt_downloads_list, downloads, btn_index, dwn_index, gui_pc,
              gui_calls >>

\* what the actions of one part leave alone
not_skip_vars == << cal_vars, date_vars, proj_vars, dl_vars, db_vars,
        dd_vars, mgr_vars, sv_vars, main_vars, gui_vars >>
not_cal_vars == << skip_vars, date_vars, proj_vars, dl_vars, db_vars,
        dd_vars, mgr_vars, sv_vars, main_vars, gui_vars >>
not_cal_db_vars == << skip_vars, date_vars, proj_vars, dl_vars, dd_vars,
        mgr_vars, sv_vars, main_vars, gui_vars >>
not_date_vars == << skip_vars, StreamingHistory, ListenDates, cal_pc,
        proj_vars, dl_vars, db_vars, dd_vars, mgr_vars, sv_vars, main_vars, gui_vars >>
not_proj_vars == << skip_vars, cal_vars, date_vars, dl_vars, db_vars,
        dd_vars, mgr_vars, sv_vars, main_vars, gui_vars >>
not_dl_vars == << durations, pc, any_non_skips, shortest_non_skip, runs,
        first_run, StreamingHistory, download_dates, ListenDates, cal_pc,
        this_date, result, config_keys, committed_tl, session_tl, todo,
        proj_pc, committed_dates, dd_vars, mgr_vars, sv_vars, main_vars, gui_vars >>
not_dd_vars == << durations, pc, any_non_skips, shortest_non_skip, runs,
        first_run, StreamingHistory, download_dates, ListenDates, cal_pc,
        this_date, result, config_keys, committed_tl, session_tl, todo,
        proj_pc, user_date, self_date, stored_date, StreamingHistoryRaw,
        dl_pc, committed_dates, mgr_vars, sv_vars, main_vars, gui_vars >>
not_mgr_vars == << durations, pc, any_non_skips, shortest_non_skip, runs,
        first_run, StreamingHistory, download_dates, ListenDates, cal_pc,
        this_date, result, config_keys, committed_tl, session_tl, todo,
        proj_pc, user_date, self_date, stored_date, StreamingHistoryRaw,
        dl_pc, committed_dates, batches, supplied, raw_listens, Artists,
        Tracks, TrackLengths,
        canonical, dd_pc, sv_vars, main_vars, gui_vars >>
not_sv_vars == << durations, pc, any_non_skips, shortest_non_skip, runs,
                   first_run, StreamingHistory, download_dates, ListenDates,
                   cal_pc, this_date, result, config_keys, committed_tl,
                   session_tl, todo, proj_pc, user_date, self_date,
                   stored_date, StreamingHistoryRaw, dl_pc, committed_dates,
                   batches, supplied, raw_listens, Artists, Tracks,
                   TrackLengths, canonical, dd_pc,
                   Projects, files, mgr_name, mgr_path, mgr_result,
                   mgr_calls, main_vars, gui_vars >>
not_main_vars == << durations, pc, any_non_skips, shortest_non_skip, runs,
                     first_run, StreamingHistory, download_dates,
                     ListenDates, cal_pc, this_date, result, config_keys,
                     committed_tl, session_tl, todo, proj_pc, user_date,
                     self_date, stored_date, StreamingHistoryRaw, dl_pc,
                     committed_dates, batches, supplied, raw_listens,
                     Artists, Tracks, TrackLengths, canonical, dd_pc,
                     Projects, files, mgr_name, mgr_path, mgr_result,
                     mgr_calls, disk, Downloads, StreamingHistories,
                     raw_streams, sv_path, sv_result, sv_calls, gui_vars >>
not_gui_vars == << durations, pc, any_non_skips, shortest_non_skip, runs,
                    first_run, StreamingHistory, download_dates, ListenDates,
                    cal_pc, this_date, result, config_keys, committed_tl,
                    session_tl, todo, proj_pc, user_date, self_date,
                    stored_date, StreamingHistoryRaw, dl_pc, committed_dates,
                    batches, supplied, raw_listens, Artists, Tracks,
                    TrackLengths, canonical, dd_pc, Projects, files,
                    mgr_name, mgr_path, mgr_result, mgr_calls, disk,
                    Downloads, StreamingHistories, raw_streams, sv_path,
                    sv_result, sv_calls, main_pc, stage_log >>

None == << >>

-----------------------------------------------------------------------------
(* Bounds of the model *)

MaxRows == 3
MaxRuns == 2
MaxListens == 3
MaxDownloads == 2

-----------------------------------------------------------------------------
(* skips.py: thresholds and SkipState *)

MIN_TRACK_LENGTH == 10000
MIN_FREQUENCY == 2
\* 0.1 and 0.02 are kept as exact fractions << numerator, denominator >>
FREQUENCY_PERCENT_THRESHOLD == << 1, 10 >>
ABSOLUTE_NON_SKIP_FREQUENCY == 6
SKIP_ERROR_MARGIN == << 2, 100 >>

\* An enum member is << "SkipState", value >>; the integer written by the
\* final clean-up loop (d.skip.value) is << "int", value >>.  The two never
\* compare equal, as in Python.
SkipState_SKIP == << "SkipState", 1 >>
SkipState_NON_SKIP == << "SkipState", 2 >>

SkipStateValue(s) == << "int", s[2] >>

\* Python truthiness of a skip attribute: None is false, every enum member
\* and every non-zero integer is true.
Truthy(s) == s # None /\ s[2] # 0

\* percent_listens >= FREQUENCY_PERCENT_THRESHOLD on exact fractions
PercentAtLeast(p, t) == p[1] * t[2] >= t[1] * p[2]

check_frequency_mut(frequency, percent_listens) ==
    IF \/ frequency > ABSOLUTE_NON_SKIP_FREQUENCY
       \/ /\ frequency >= MIN_FREQUENCY
          /\ PercentAtLeast(percent_listens, FREQUENCY_PERCENT_THRESHOLD)
    THEN SkipState_NON_SKIP
    ELSE None

check_frequency(frequency, percent_listens) ==
    IF \/ frequency >= ABSOLUTE_NON_SKIP_FREQUENCY
       \/ /\ frequency >= MIN_FREQUENCY
          /\ PercentAtLeast(percent_listens, FREQUENCY_PERCENT_THRESHOLD)
    THEN SkipState_NON_SKIP
    ELSE None

\* a margin taken twice, as if a promoted duration became the reference
WithinMargin_mut(duration, shortest) ==
    100 * 100 * duration >= 98 * 98 * shortest

\* duration >= (1 - SKIP_ERROR_MARGIN) * shortest_non_skip, on exact fractions
WithinMargin(duration, shortest) ==
    duration * SKIP_ERROR_MARGIN[2] >=
        (SKIP_ERROR_MARGIN[2] - SKIP_ERROR_MARGIN[1]) * shortest

\* "if shortest_non_skip and ...": None and 0 are both false
check_duration_mut(duration, shortest, current_state) ==
    IF /\ shortest # None
       /\ shortest[1] # 0
       /\ WithinMargin(duration, shortest[1])
    THEN SkipState_NON_SKIP
    ELSE None

check_duration(duration, shortest, current_state) ==
    IF current_state = SkipState_NON_SKIP
    THEN SkipState_NON_SKIP
    ELSE IF /\ shortest # None
            /\ shortest[1] # 0
            /\ WithinMargin(duration, shortest[1])
         THEN SkipState_NON_SKIP
         ELSE current_state

-----------------------------------------------------------------------------
(* skips.py: _determine_skips_for_track, one action per loop of the body *)

Rows(ds) == 1..Len(ds)

\* line 117: d.skip = check_frequency(d.frequency, d.percent_listens)
frequency_skip_mut(d) ==
    IF check_frequency(d.frequency, d.percent_listens) = SkipState_NON_SKIP
    THEN SkipState_NON_SKIP
    ELSE d.skip

frequency_skip(d) == check_frequency(d.frequency, d.percent_listens)

\* lines 139-141: anything that is not NON_SKIP becomes SKIP
default_skip_mut(d) == d.skip

default_skip(d) ==
    IF d.skip # SkipState_NON_SKIP THEN SkipState_SKIP ELSE d.skip

\* lines 144-145: d.skip = d.skip.value
cleanup_skip(d) == SkipStateValue(d.skip)

Min(S) == CHOOSE x \in S : \A y \in S : x <= y
Max(S) == CHOOSE x \in S : \A y \in S : x >= y

\* lines 116-119
FrequencyStage ==
    /\ pc = "frequency"
    /\ LET new == [i \in Rows(durations) |->
             [durations[i] EXCEPT !.skip = frequency_skip(durations[i])]]
       IN  /\ durations' = new
           /\ any_non_skips' = (\E i \in Rows(new) : Truthy(new[i].skip))
    /\ pc' = "fallback"
    /\ UNCHANGED << shortest_non_skip, runs, first_run >>
    /\ UNCHANGED not_skip_vars

\* line 125: durations[0] raises IndexError on an empty list
fallback_raises_mut(ds, any) == ~any /\ Len(ds) <= 1

fallback_raises(ds, any) == ~any /\ Len(ds) = 0

\* lines 124-126
FallbackStage ==
    /\ pc = "fallback"
    /\ IF fallback_raises(durations, any_non_skips)
       THEN /\ pc' = "IndexError"
            /\ durations' = durations
       ELSE /\ pc' = "shortest"
            /\ durations' =
                 IF ~any_non_skips /\ durations[1].ms_played >= MIN_TRACK_LENGTH
                 THEN [durations EXCEPT ![1].skip = SkipState_NON_SKIP]
                 ELSE durations
    /\ UNCHANGED << any_non_skips, shortest_non_skip, runs, first_run >>
    /\ UNCHANGED not_skip_vars

\* lines 129-131
ShortestStage ==
    /\ pc = "shortest"
    /\ LET non_skips == { durations[i].ms_played : i \in
                            { j \in Rows(durations) :
                                durations[j].skip = SkipState_NON_SKIP } }
       IN  shortest_non_skip' =
             IF non_skips # {} THEN << Min(non_skips) >> ELSE None
    /\ pc' = "proximity"
    /\ UNCHANGED << durations, any_non_skips, runs, first_run >>
    /\ UNCHANGED not_skip_vars

proximity_skip(d) == check_duration(d.ms_played, shortest_non_skip, d.skip)

\* lines 135-136
ProximityStage ==
    /\ pc = "proximity"
    /\ durations' = [i \in Rows(durations) |->
             [durations[i] EXCEPT !.skip = proximity_skip(durations[i])]]
    /\ pc' = "default"
    /\ UNCHANGED << any_non_skips, shortest_non_skip, runs, first_run >>
    /\ UNCHANGED not_skip_vars

\* lines 139-141
DefaultStage ==
    /\ pc = "default"
    /\ durations' = [i \in Rows(durations) |->
             [durations[i] EXCEPT !.skip = default_skip(durations[i])]]
    /\ pc' = "cleanup"
    /\ UNCHANGED << any_non_skips, shortest_non_skip, runs, first_run >>
    /\ UNCHANGED not_skip_vars

Labels(ds) == [i \in Rows(ds) |-> ds[i].skip]

\* lines 144-147
CleanupStage ==
    /\ pc = "cleanup"
    /\ LET new == [i \in Rows(durations) |->
             [durations[i] EXCEPT !.skip = cleanup_skip(durations[i])]]
       IN  /\ durations' = new
           /\ first_run' = IF runs = 1 THEN Labels(new) ELSE first_run
    /\ pc' = "done"
    /\ UNCHANGED << any_non_skips, shortest_non_skip, runs >>
    /\ UNCHANGED not_skip_vars

\* determine_skips called again on the same project: the rows keep the
\* labels of the previous run, the locals are initialised afresh
Rerun ==
    /\ pc = "done"
    /\ runs < MaxRuns
    /\ runs' = runs + 1
    /\ pc' = "frequency"
    /\ any_non_skips' = FALSE
    /\ shortest_non_skip' = None
    /\ UNCHANGED << durations, first_run >>
    /\ UNCHANGED not_skip_vars

-----------------------------------------------------------------------------
(* The TrackLengths rows of one track, as the aggregator leaves them *)

MsPlayedValues == {0, 9799, 9800, 10000, 20000}
FrequencyValues == {1, 2, 6, 18, 55}

RECURSIVE SumFrequency(_, _)
SumFrequency(f, n) == IF n = 0 THEN 0 ELSE f[n] + SumFrequency(f, n - 1)

\* One row per distinct ms_played (primary key), percent_listens is
\* frequency / total listens of the track, skip is NULL.  determine_skips
\* orders by track_id only, so the rows of a track come in any order.
\* TrackRows(0) is the empty list of a direct call of the per-track function.
TrackRows(n) ==
    { [i \in 1..n |-> [ms_played |-> ms[i],
                       frequency |-> fr[i],
                       percent_listens |-> << fr[i], SumFrequency(fr, n) >>,
                       skip |-> None]] :
        ms \in { m \in [1..n -> MsPlayedValues] :
                    \A i, j \in 1..n : i # j => m[i] # m[j] },
        fr \in [1..n -> FrequencyValues] }

SkipInit ==
    /\ \E n \in 0..MaxRows : durations \in TrackRows(n)
    /\ pc = "frequency"
    /\ any_non_skips = FALSE
    /\ shortest_non_skip = None
    /\ runs = 1
    /\ first_run = << >>
    \* the calendar builder and the date check are not running
    /\ StreamingHistory = {}
    /\ download_dates = << >>
    /\ ListenDates = << >>
    /\ cal_pc = "idle"
    /\ this_date = 0
    /\ result = << TRUE >>
    /\ config_keys = {}
    /\ committed_tl = << >>
    /\ session_tl = << >>
    /\ todo = {}
    /\ proj_pc = "idle"
    /\ user_date = None
    /\ self_date = None
    /\ stored_date = None
    /\ StreamingHistoryRaw = {}
    /\ dl_pc = "idle"
    /\ committed_dates = << >>
    /\ batches = << >>
    /\ supplied = << >>
    /\ raw_listens = << >>
    /\ Artists = << >>
    /\ Tracks = << >>
    /\ TrackLengths = {}
    /\ canonical = << >>
    /\ dd_pc = "idle"
    /\ Projects = {}
    /\ files = {}
    /\ mgr_name = << >>
    /\ mgr_path = << >>
    /\ mgr_result = "none"
    /\ mgr_calls = 0
    /\ disk = << >>
    /\ Downloads = {}
    /\ StreamingHistories = {}
    /\ raw_streams = {}
    /\ sv_path = ""
    /\ sv_result = "none"
    /\ sv_calls = 0
    /\ main_pc = "idle"
    /\ stage_log = << >>
    /\ lyt_downloads_list = << >>
    /\ downloads = << >>
    /\ btn_index = 0
    /\ dwn_index = 0
    /\ gui_pc = "idle"
    /\ gui_calls = 0

-----------------------------------------------------------------------------
(* datetime.date, datetime.datetime, timedelta and relativedelta *)

\* A date is its proleptic Gregorian ordinal (date.toordinal()); a datetime
\* is [day |-> ordinal of its date, sec |-> seconds since midnight].
SecondsPerDay == 86400

IsLeap(y) == y % 4 = 0 /\ (y % 100 # 0 \/ y % 400 = 0)

DaysInMonth(y, m) ==
    IF m \in {1, 3, 5, 7, 8, 10, 12} THEN 31
    ELSE IF m \in {4, 6, 9, 11} THEN 30
    ELSE IF IsLeap(y) THEN 29 ELSE 28

DaysBeforeYear(y) ==
    LET p == y - 1 IN p * 365 + (p \div 4) - (p \div 100) + (p \div 400)

RECURSIVE DaysBeforeMonth(_, _)
DaysBeforeMonth(y, m) ==
    IF m = 1 THEN 0 ELSE DaysBeforeMonth(y, m - 1) + DaysInMonth(y, m - 1)

toordinal(d) == DaysBeforeYear(d.year) + DaysBeforeMonth(d.year, d.month) + d.day

Years == 2017..2021

fromordinal(n) ==
    LET y == CHOOSE yy \in Years :
                 DaysBeforeYear(yy) < n /\ n <= DaysBeforeYear(yy + 1)
        r == n - DaysBeforeYear(y)
        m == CHOOSE mm \in 1..12 :
                 /\ DaysBeforeMonth(y, mm) < r
                 /\ r <= DaysBeforeMonth(y, mm) + DaysInMonth(y, mm)
    IN  [year |-> y, month |-> m, day |-> r - DaysBeforeMonth(y, m)]

Date(y, m, d) == toordinal([year |-> y, month |-> m, day |-> d])

\* end_date - relativedelta(years=1): same month and day one year earlier,
\* the day clipped to the length of that month
minus_one_year(end_date) ==
    LET d == fromordinal(end_date)
        y == d.year - 1
        last == DaysInMonth(y, d.month)
    IN  toordinal([year |-> y, month |-> d.month,
                   day |-> IF d.day > last THEN last ELSE d.day])

\* datetime + timedelta(days=n)
plus_days(dt, n) == [dt EXCEPT !.day = dt.day + n]

\* (end - start).days for datetimes
delta_days(end, start) ==
    ((end.day - start.day) * SecondsPerDay + (end.sec - start.sec))
        \div SecondsPerDay

DtBefore(a, b) == a.day < b.day \/ (a.day = b.day /\ a.sec < b.sec)

\* what the DATE column stores of a datetime bound to it
DateColumn(dt) == dt.day

-----------------------------------------------------------------------------
(* utils.py: date_range *)

date_range(start_date, end_date) ==
    [n \in 1..delta_days(end_date, start_date) |-> plus_days(start_date, n - 1)]

-----------------------------------------------------------------------------
(* preprocess.py: list_dates, identify_missing_dates, is_date_missing *)

RECURSIVE OrderBy(_)
OrderBy(S) ==
    IF S = {} THEN << >>
    ELSE LET first == CHOOSE x \in S : \A y \in S \ {x} : DtBefore(x, y)
         IN  << first >> \o OrderBy(S \ {first})

InSeq(x, sq) == \E i \in 1..Len(sq) : sq[i] = x

\* lines 105-126
list_dates_rows(history) ==
    LET dates_incl == OrderBy(history)
        first_date == dates_incl[1]
        last_date == dates_incl[Len(dates_incl)]
        range == date_range(first_date, plus_days(last_date, 1))
    IN  [n \in 1..Len(range) |->
            [day |-> DateColumn(range[n]),
             has_listen |-> InSeq(range[n], dates_incl),
             is_missing |-> None]]

\* lines 172-173
in_download_range_mut(a_date, end_date) ==
    minus_one_year(end_date) < a_date /\ a_date <= end_date

in_download_range(a_date, end_date) ==
    minus_one_year(end_date) <= a_date /\ a_date <= end_date

RECURSIVE is_date_missing_from(_, _, _)
is_date_missing_from(a_date, dates, k) ==
    IF k > Len(dates) THEN TRUE
    ELSE IF in_download_range(a_date, dates[k]) THEN FALSE
    ELSE is_date_missing_from(a_date, dates, k + 1)

\* lines 171-175
is_date_missing(a_date, dates) == is_date_missing_from(a_date, dates, 1)

\* line 118: dates_incl[0] raises IndexError when there is no listen
list_dates_raises(history) == history = {}

ListDates ==
    /\ cal_pc = "list_dates"
    /\ IF list_dates_raises(StreamingHistory)
       THEN /\ cal_pc' = "IndexError"
            /\ ListenDates' = ListenDates
       ELSE /\ cal_pc' = "identify_missing_dates"
            /\ ListenDates' = ListenDates \o list_dates_rows(StreamingHistory)
    /\ UNCHANGED << StreamingHistory, download_dates >>
    /\ UNCHANGED not_cal_vars

IdentifyMissingDates ==
    /\ cal_pc = "identify_missing_dates"
    /\ ListenDates' =
         [n \in 1..Len(ListenDates) |->
            [ListenDates[n] EXCEPT
                !.is_missing = << is_date_missing(ListenDates[n].day,
                                                  download_dates) >>]]
    /\ cal_pc' = "correct_date_anomalies"
    /\ UNCHANGED << StreamingHistory, download_dates >>
    /\ UNCHANGED not_cal_vars

\* correct_date_anomalies.sql (preprocess.main step 6): a row with
\* has_listen and is_missing both true gets is_missing = false
CorrectDateAnomalies ==
    /\ cal_pc = "correct_date_anomalies"
    /\ ListenDates' =
         [n \in 1..Len(ListenDates) |->
            IF ListenDates[n].has_listen /\ ListenDates[n].is_missing = << TRUE >>
            THEN [ListenDates[n] EXCEPT !.is_missing = << FALSE >>]
            ELSE ListenDates[n]]
    /\ cal_pc' = "done"
    /\ UNCHANGED << StreamingHistory, download_dates >>
    /\ UNCHANGED not_cal_vars

\* line 60: the with block ends and closes the session. Lines 60-89 hold no
\* commit and db.session gives a plain Session(engine, autoflush=True), so
\* the close rolls the pending rows back; ListenDates keeps the rows the
\* pass produced, committed_dates what the database holds.
session_exit(committed, pending) == committed

CloseSession ==
    /\ cal_pc = "done"
    /\ cal_pc' = "returned"
    /\ committed_dates' = session_exit(committed_dates, ListenDates)
    /\ UNCHANGED << StreamingHistory, download_dates, ListenDates >>
    /\ UNCHANGED not_cal_db_vars

\* is_date_missing called on its own
CallIsDateMissing ==
    /\ result = None
    /\ result' = << is_date_missing(this_date, download_dates) >>
    /\ UNCHANGED << this_date, download_dates >>
    /\ UNCHANGED not_date_vars

-----------------------------------------------------------------------------
(* Inputs of the calendar builder *)

ListenDays == { Date(2019, 2, 27), Date(2019, 2, 28), Date(2019, 3, 1) }
ListenSeconds == { 36000, 39600 }
EndTimes == [day : ListenDays, sec : ListenSeconds]

DownloadDateValues ==
    { Date(2019, 3, 1), Date(2020, 2, 28), Date(2020, 2, 29),
      Date(2020, 3, 1), Date(2020, 3, 2) }

CheckedDays == ListenDays \cup DownloadDateValues \cup { Date(2020, 3, 3) }

SeqsUpTo(S, n) == UNION { [1..k -> S] : k \in 0..n }

\* load() moves a download's date to its last listen date when the given
\* date is earlier, and every listen comes from a download: some download
\* date is on or after the date of the latest listen.  A project without
\* any listen has no loaded download (load() fails on a download without
\* listens), only downloads saved with the date the user gave.
CalInit ==
    /\ StreamingHistory \in
         { h \in SUBSET EndTimes : Cardinality(h) <= MaxListens }
    /\ download_dates \in
         { dd \in SeqsUpTo(DownloadDateValues, MaxDownloads) :
             \/ StreamingHistory = {}
             \/ \E k \in 1..Len(dd) :
                   \A l \in StreamingHistory : l.day <= dd[k] }
    /\ ListenDates = << >>
    /\ cal_pc = "list_dates"
    \* the classifier and the date check are not running
    /\ durations = << >>
    /\ pc = "idle"
    /\ any_non_skips = FALSE
    /\ shortest_non_skip = None
    /\ runs = 0
    /\ first_run = << >>
    /\ this_date = 0
    /\ result = << TRUE >>
    /\ config_keys = {}
    /\ committed_tl = << >>
    /\ session_tl = << >>
    /\ todo = {}
    /\ proj_pc = "idle"
    /\ user_date = None
    /\ self_date = None
    /\ stored_date = None
    /\ StreamingHistoryRaw = {}
    /\ dl_pc = "idle"
    /\ committed_dates = << >>
    /\ batches = << >>
    /\ supplied = << >>
    /\ raw_listens = << >>
    /\ Artists = << >>
    /\ Tracks = << >>
    /\ TrackLengths = {}
    /\ canonical = << >>
    /\ dd_pc = "idle"
    /\ Projects = {}
    /\ files = {}
    /\ mgr_name = << >>
    /\ mgr_path = << >>
    /\ mgr_result = "none"
    /\ mgr_calls = 0
    /\ disk = << >>
    /\ Downloads = {}
    /\ StreamingHistories = {}
    /\ raw_streams = {}
    /\ sv_path = ""
    /\ sv_result = "none"
    /\ sv_calls = 0
    /\ main_pc = "idle"
    /\ stage_log = << >>
    /\ lyt_downloads_list = << >>
    /\ downloads = << >>
    /\ btn_index = 0
    /\ dwn_index = 0
    /\ gui_pc = "idle"
    /\ gui_calls = 0

DateInit ==
    /\ this_date \in CheckedDays
    /\ download_dates \in SeqsUpTo(DownloadDateValues, MaxDownloads)
    /\ result = None
    \* the classifier and the calendar builder are not running
    /\ durations = << >>
    /\ pc = "idle"
    /\ any_non_skips = FALSE
    /\ shortest_non_skip = None
    /\ runs = 0
    /\ first_run = << >>
    /\ StreamingHistory = {}
    /\ ListenDates = << >>
    /\ cal_pc = "idle"
    /\ config_keys = {}
    /\ committed_tl = << >>
    /\ session_tl = << >>
    /\ todo = {}
    /\ proj_pc = "idle"
    /\ user_date = None
    /\ self_date = None
    /\ stored_date = None
    /\ StreamingHistoryRaw = {}
    /\ dl_pc = "idle"
    /\ committed_dates = << >>
    /\ batches = << >>
    /\ supplied = << >>
    /\ raw_listens = << >>
    /\ Artists = << >>
    /\ Tracks = << >>
    /\ TrackLengths = {}
    /\ canonical = << >>
    /\ dd_pc = "idle"
    /\ Projects = {}
    /\ files = {}
    /\ mgr_name = << >>
    /\ mgr_path = << >>
    /\ mgr_result = "none"
    /\ mgr_calls = 0
    /\ disk = << >>
    /\ Downloads = {}
    /\ StreamingHistories = {}
    /\ raw_streams = {}
    /\ sv_path = ""
    /\ sv_result = "none"
    /\ sv_calls = 0
    /\ main_pc = "idle"
    /\ stage_log = << >>
    /\ lyt_downloads_list = << >>
    /\ downloads = << >>
    /\ btn_index = 0
    /\ dwn_index = 0
    /\ gui_pc = "idle"
    /\ gui_calls = 0

-----------------------------------------------------------------------------
(* skips.py determine_skips: every track of one project, one transaction *)

MaxTracks == 2
MaxTrackRows == 2

\* properties.py: the members of Config a project can hold a value for
ConfigKeys == { "MIN_NON_SKIP_TRACK_LENGTH",
                "MIN_NON_SKIP_FREQUENCY_THRESHOLD",
                "MIN_NON_SKIP_FREQUENCY_PERCENT_THRESHOLD",
                "ABSOLUTE_NON_SKIP_FREQUENCY_THRESHOLD",
                "SKIP_DURATION_ERROR_MARGIN" }

\* lines 97-147 as one function of the rows of a track
determine_skips_for_track(ds) ==
    LET s1 == [i \in Rows(ds) |-> [ds[i] EXCEPT !.skip = frequency_skip(ds[i])]]
        any == \E i \in Rows(s1) : Truthy(s1[i].skip)
        s2 == IF ~any /\ s1[1].ms_played >= MIN_TRACK_LENGTH
              THEN [s1 EXCEPT ![1].skip = SkipState_NON_SKIP]
              ELSE s1
        non_skips == { s2[i].ms_played : i \in
                         { j \in Rows(s2) : s2[j].skip = SkipState_NON_SKIP } }
        shortest == IF non_skips # {} THEN << Min(non_skips) >> ELSE None
        s3 == [i \in Rows(s2) |-> [s2[i] EXCEPT !.skip =
                  check_duration(s2[i].ms_played, shortest, s2[i].skip)]]
        s4 == [i \in Rows(s3) |-> [s3[i] EXCEPT !.skip = default_skip(s3[i])]]
    IN  [i \in Rows(s4) |-> [s4[i] EXCEPT !.skip = cleanup_skip(s4[i])]]

\* line 90: the group handed to the classifier is the loop variable
track_group_mut(tracks, t) == tracks[1]

track_group(tracks, t) == tracks[t]

\* lines 89-94: nothing is committed inside the loop
visible_after_track_mut(committed, session) == session

visible_after_track(committed, session) == committed

\* lines 77-82: the session loads the committed rows and groups them by track
LoadTrackLengths ==
    /\ proj_pc = "load"
    /\ session_tl' = committed_tl
    /\ todo' = DOMAIN committed_tl
    /\ proj_pc' = "loop"
    /\ UNCHANGED << config_keys, committed_tl >>
    /\ UNCHANGED not_proj_vars

\* lines 89-90, one iteration. The code visits the groups by ascending
\* track_id; the model lets any remaining group come next.
ClassifyTrack ==
    /\ proj_pc = "loop"
    /\ \E t \in todo :
          /\ session_tl' = [session_tl EXCEPT
                  ![t] = determine_skips_for_track(track_group(session_tl, t))]
          /\ todo' = todo \ {t}
    /\ committed_tl' = visible_after_track(committed_tl, session_tl')
    /\ UNCHANGED << config_keys, proj_pc >>
    /\ UNCHANGED not_proj_vars

\* line 94
Commit ==
    /\ proj_pc = "loop"
    /\ todo = {}
    /\ committed_tl' = session_tl
    /\ proj_pc' = "done"
    /\ UNCHANGED << config_keys, session_tl, todo >>
    /\ UNCHANGED not_proj_vars

\* the database raises in the select of line 78 or in the commit of line 94:
\* the with block of line 77 closes the session, which rolls back
StorageError ==
    /\ \/ proj_pc = "load"
       \/ proj_pc = "loop" /\ todo = {}
    /\ proj_pc' = "failed"
    /\ session_tl' = committed_tl
    /\ todo' = {}
    /\ UNCHANGED << config_keys, committed_tl >>
    /\ UNCHANGED not_proj_vars

ProjMsPlayed == {9800, 10000}
ProjFrequency == {1, 6}

\* the rows load_track_lengths gives one track: distinct ms_played,
\* percent_listens the share of the track's listens, no label
ProjTrackRows ==
    UNION { { ds \in [1..n -> [ms_played : ProjMsPlayed,
                               frequency : ProjFrequency,
                               percent_listens : {<< f, s >> :
                                    f \in ProjFrequency, s \in 1..12},
                               skip : {None}]] :
                /\ \A i, j \in 1..n : i # j => ds[i].ms_played # ds[j].ms_played
                /\ \A i \in 1..n : ds[i].percent_listens =
                      << ds[i].frequency,
                         SumFrequency([k \in 1..n |-> ds[k].frequency], n) >> }
            : n \in 1..MaxTrackRows }

\* the configurations of a project: complete, one key absent, or empty
ProjConfigs == {ConfigKeys, {}} \cup {ConfigKeys \ {k} : k \in ConfigKeys}

ProjInit ==
    /\ config_keys \in ProjConfigs
    /\ \E n \in 0..MaxTracks : committed_tl \in [1..n -> ProjTrackRows]
    /\ session_tl = << >>
    /\ todo = {}
    /\ proj_pc = "load"
    /\ durations = << >>
    /\ pc = "idle"
    /\ any_non_skips = FALSE
    /\ shortest_non_skip = None
    /\ runs = 0
    /\ first_run = << >>
    /\ StreamingHistory = {}
    /\ download_dates = << >>
    /\ ListenDates = << >>
    /\ cal_pc = "idle"
    /\ this_date = 0
    /\ result = << TRUE >>
    /\ user_date = None
    /\ self_date = None
    /\ stored_date = None
    /\ StreamingHistoryRaw = {}
    /\ dl_pc = "idle"
    /\ committed_dates = << >>
    /\ batches = << >>
    /\ supplied = << >>
    /\ raw_listens = << >>
    /\ Artists = << >>
    /\ Tracks = << >>
    /\ TrackLengths = {}
    /\ canonical = << >>
    /\ dd_pc = "idle"
    /\ Projects = {}
    /\ files = {}
    /\ mgr_name = << >>
    /\ mgr_path = << >>
    /\ mgr_result = "none"
    /\ mgr_calls = 0
    /\ disk = << >>
    /\ Downloads = {}
    /\ StreamingHistories = {}
    /\ raw_streams = {}
    /\ sv_path = ""
    /\ sv_result = "none"
    /\ sv_calls = 0
    /\ main_pc = "idle"
    /\ stage_log = << >>
    /\ lyt_downloads_list = << >>
    /\ downloads = << >>
    /\ btn_index = 0
    /\ dwn_index = 0
    /\ gui_pc = "idle"
    /\ gui_calls = 0

ProjNext ==
    \/ LoadTrackLengths
    \/ ClassifyTrack
    \/ Commit
    \/ StorageError

\* determine_skips on the TrackLengths table of a project
ProjSpec == ProjInit /\ [][ProjNext]_vars


-----------------------------------------------------------------------------
(* structure/spotify_download.py: the download date of one SpotifyDownload *)

\* line 313: func.max over the end_time of the raw listens of the download
max_end_time(raw) ==
    CHOOSE m \in raw : \A x \in raw : x = m \/ DtBefore(x, m)

\* lines 352-361: the value self.date takes, given the last listen date
corrected_date_mut(date, end_date) ==
    IF date = None THEN << end_date >> ELSE date

corrected_date(date, end_date) ==
    IF date = None THEN << end_date >>
    ELSE IF date[1] < end_date THEN << end_date >>
    ELSE date

\* lines 229-248
SaveDownload ==
    /\ dl_pc = "new"
    /\ stored_date' = self_date
    /\ dl_pc' = "saved"
    /\ UNCHANGED << user_date, self_date, StreamingHistoryRaw >>
    /\ UNCHANGED not_dl_vars

\* lines 250-301: load() saves the listens of the files of the download,
\* then __set_download_date (lines 303-366) corrects the date
LoadDownload ==
    /\ dl_pc = "saved"
    /\ \E raw \in SUBSET EndTimes :
          /\ Cardinality(raw) <= MaxListens
          /\ StreamingHistoryRaw' = raw
          /\ IF raw = {}
             THEN /\ dl_pc' = "AssertionError"
                  /\ UNCHANGED << self_date, stored_date >>
             ELSE LET end_date == DateColumn(max_end_time(raw))
                      new_date == corrected_date(self_date, end_date)
                  IN  /\ self_date' = new_date
                      /\ stored_date' = IF new_date = self_date
                                        THEN stored_date
                                        ELSE << end_date >>
                      /\ dl_pc' = "loaded"
    /\ UNCHANGED user_date
    /\ UNCHANGED not_dl_vars

\* the dates a user gives a download
UserDates == ListenDays \cup {Date(2019, 3, 2)}

DlInit ==
    /\ user_date \in {None} \cup {<< d >> : d \in UserDates}
    /\ self_date = user_date
    /\ stored_date = None
    /\ StreamingHistoryRaw = {}
    /\ dl_pc = "new"
    /\ durations = << >>
    /\ pc = "idle"
    /\ any_non_skips = FALSE
    /\ shortest_non_skip = None
    /\ runs = 0
    /\ first_run = << >>
    /\ StreamingHistory = {}
    /\ download_dates = << >>
    /\ ListenDates = << >>
    /\ cal_pc = "idle"
    /\ this_date = 0
    /\ result = << TRUE >>
    /\ config_keys = {}
    /\ committed_tl = << >>
    /\ session_tl = << >>
    /\ todo = {}
    /\ proj_pc = "idle"
    /\ committed_dates = << >>
    /\ batches = << >>
    /\ supplied = << >>
    /\ raw_listens = << >>
    /\ Artists = << >>
    /\ Tracks = << >>
    /\ TrackLengths = {}
    /\ canonical = << >>
    /\ dd_pc = "idle"
    /\ Projects = {}
    /\ files = {}
    /\ mgr_name = << >>
    /\ mgr_path = << >>
    /\ mgr_result = "none"
    /\ mgr_calls = 0
    /\ disk = << >>
    /\ Downloads = {}
    /\ StreamingHistories = {}
    /\ raw_streams = {}
    /\ sv_path = ""
    /\ sv_result = "none"
    /\ sv_calls = 0
    /\ main_pc = "idle"
    /\ stage_log = << >>
    /\ lyt_downloads_list = << >>
    /\ downloads = << >>
    /\ btn_index = 0
    /\ dwn_index = 0
    /\ gui_pc = "idle"
    /\ gui_calls = 0

DlNext ==
    \/ SaveDownload
    \/ LoadDownload

\* one SpotifyDownload saved and loaded
DlSpec == DlInit /\ [][DlNext]_vars

-----------------------------------------------------------------------------
(* Raw listens of several streaming history files and their cleaning.     *)
(* The two SQL scripts that preprocess.main runs first are described by   *)
(* sections 4.1 and 4.2 of the specification.                             *)

MaxBatches == 2
MaxRawListens == 4

UnknownPair == << "Unknown Artist", "Unknown Track" >>

\* the listens the files hold: two that differ in ms_played only, two that
\* differ in the artist only, a later one, an unknown one, and one of an
\* artist whose name is "Unknown Artist"
RawSamples ==
    LET t1 == [day |-> Date(2019, 2, 27), sec |-> 36000]
        t2 == [day |-> Date(2019, 2, 27), sec |-> 39600]
        L(t, a, n, ms) == [end_time |-> t, artist_name |-> a,
                           track_name |-> n, ms_played |-> ms]
    IN  { L(t1, "A", "x", 1000), L(t1, "A", "x", 2000), L(t1, "B", "x", 1000),
          L(t2, "A", "x", 1000),
          L(t1, UnknownPair[1], UnknownPair[2], 1000),
          L(t1, UnknownPair[1], "x", 1000) }

\* streaming_history.py lines 91-98: the records of one file, numbered by
\* enumerate from 0
records(history_id, j) ==
    [p \in 1..Len(j) |-> [history_id |-> history_id,
                          position |-> p - 1,
                          end_time |-> j[p].end_time,
                          artist_name |-> j[p].artist_name,
                          track_name |-> j[p].track_name,
                          ms_played |-> j[p].ms_played]]

\* streaming_history.py line 101: the records join the table
add_all_mut(table, recs) == recs

add_all(table, recs) == table \o recs

\* spotify_download.py lines 277-278, one file; a project takes its
\* downloads in any order
SaveStreamingHistory ==
    /\ dd_pc = "load"
    /\ \E b \in DOMAIN batches :
          /\ ~InSeq(b, supplied)
          /\ raw_listens' = add_all(raw_listens,
                                    records(Len(supplied) + 1, batches[b]))
          /\ supplied' = Append(supplied, b)
    /\ UNCHANGED << batches, Artists, Tracks, TrackLengths, canonical, dd_pc >>
    /\ UNCHANGED not_dd_vars

\* the id of a row is its place in the table
index_of(table, row) == CHOOSE i \in 1..Len(table) : table[i] = row

\* section 4.1: a row is created when no row matches exactly
find_or_create_mut(table, row) == Append(table, row)

find_or_create(table, row) ==
    IF InSeq(row, table) THEN table ELSE Append(table, row)

\* section 4.1: the ids of a pair, rows created for what is absent; the
\* unknown pair maps to a null track reference and creates nothing
resolve_mut(artists, tracks, artist_name, track_name) ==
    LET artists1 == find_or_create(artists, artist_name)
        row == [artist_id |-> index_of(artists1, artist_name),
                name |-> track_name]
        tracks1 == find_or_create(tracks, row)
    IN  [artists |-> artists1, tracks |-> tracks1,
         artist_id |-> << row.artist_id >>,
         track_id |-> IF << artist_name, track_name >> = UnknownPair
                      THEN None ELSE << index_of(tracks1, row) >>]

resolve(artists, tracks, artist_name, track_name) ==
    IF << artist_name, track_name >> = UnknownPair
    THEN [artists |-> artists, tracks |-> tracks,
          artist_id |-> None, track_id |-> None]
    ELSE LET artists1 == find_or_create(artists, artist_name)
             row == [artist_id |-> index_of(artists1, artist_name),
                     name |-> track_name]
             tracks1 == find_or_create(tracks, row)
         IN  [artists |-> artists1, tracks |-> tracks1,
              artist_id |-> << row.artist_id >>,
              track_id |-> << index_of(tracks1, row) >>]

\* section 4.1: the pairs of the raw listens resolved in the order of the
\* table
RECURSIVE load_tracks(_, _)
load_tracks(raw, k) ==
    IF k = 0 THEN [artists |-> << >>, tracks |-> << >>]
    ELSE LET prev == load_tracks(raw, k - 1)
             r == resolve(prev.artists, prev.tracks,
                          raw[k].artist_name, raw[k].track_name)
         IN  [artists |-> r.artists, tracks |-> r.tracks]

\* section 4.2: the track id of a listen, by exact match of both names;
\* None for the unknown pair
track_id(artists, tracks, artist_name, track_name) ==
    IF << artist_name, track_name >> = UnknownPair THEN None
    ELSE << CHOOSE i \in 1..Len(tracks) :
                /\ tracks[i].name = track_name
                /\ artists[tracks[i].artist_id] = artist_name >>

\* preprocess.py lines 62-64
LoadArtistsTracks ==
    /\ dd_pc = "load"
    /\ Len(supplied) = Len(batches)
    /\ LET loaded == load_tracks(raw_listens, Len(raw_listens))
       IN  /\ Artists' = loaded.artists
           /\ Tracks' = loaded.tracks
    /\ dd_pc' = "clean"
    /\ UNCHANGED << batches, supplied, raw_listens, TrackLengths, canonical >>
    /\ UNCHANGED not_dd_vars

\* section 4.2: the order of the sort, end_timestamp then position in the file
sorts_before_mut(a, b) == a.position < b.position

sorts_before(a, b) ==
    \/ DtBefore(a.end_time, b.end_time)
    \/ a.end_time = b.end_time /\ a.position < b.position

\* a stable insertion sort: rows the order does not tell apart stay in the
\* order of the table
RECURSIVE sort_raw(_, _)
sort_raw(raw, k) ==
    IF k = 0 THEN << >>
    ELSE LET prev == sort_raw(raw, k - 1)
             n == Cardinality({ i \in 1..Len(prev) :
                                   ~sorts_before(raw[k], prev[i]) })
         IN  [i \in 1..k |-> IF i <= n THEN prev[i]
                             ELSE IF i = n + 1 THEN raw[k]
                             ELSE prev[i - 1]]

\* section 4.2: exact duplicates
same_event_mut(a, b) ==
    /\ a.end_time = b.end_time
    /\ a.artist_name = b.artist_name
    /\ a.track_name = b.track_name

same_event(a, b) ==
    /\ a.end_time = b.end_time
    /\ a.artist_name = b.artist_name
    /\ a.track_name = b.track_name
    /\ a.ms_played = b.ms_played

\* section 4.2: of each group of duplicates the first instance is kept
RECURSIVE collapse(_, _)
collapse(rows, k) ==
    IF k = 0 THEN << >>
    ELSE IF \E j \in 1..(k - 1) : same_event(rows[j], rows[k])
         THEN collapse(rows, k - 1)
         ELSE Append(collapse(rows, k - 1), rows[k])

\* section 4.2: dense positions in sorted order, track ids resolved
clean_streaming_history(raw, artists, tracks) ==
    LET kept == collapse(sort_raw(raw, Len(raw)), Len(raw))
    IN  [i \in 1..Len(kept) |->
            [position |-> i,
             end_time |-> kept[i].end_time,
             track_id |-> track_id(artists, tracks, kept[i].artist_name,
                                   kept[i].track_name),
             ms_played |-> kept[i].ms_played]]

\* preprocess.py lines 66-70
CleanStreamingHistory ==
    /\ dd_pc = "clean"
    /\ canonical' = clean_streaming_history(raw_listens, Artists, Tracks)
    /\ dd_pc' = "cleaned"
    /\ UNCHANGED << batches, supplied, raw_listens, Artists, Tracks,
                    TrackLengths >>
    /\ UNCHANGED not_dd_vars

\* section 4.3: the listens of one track with one ms_played
bucket_mut(canon, t, ms) ==
    { i \in 1..Len(canon) : canon[i].ms_played = ms }

bucket(canon, t, ms) ==
    { i \in 1..Len(canon) : canon[i].track_id = << t >>
                            /\ canon[i].ms_played = ms }

\* section 4.3: one row per track and ms_played, no label. track_id is part
\* of the primary key of TrackLengths: listens without a track give no row
track_lengths(canon) ==
    LET listens(t) == { i \in 1..Len(canon) : canon[i].track_id = << t >> }
        keys == { << canon[i].track_id[1], canon[i].ms_played >> :
                     i \in { j \in 1..Len(canon) : canon[j].track_id # None } }
    IN  { [track_id |-> k[1],
           ms_played |-> k[2],
           frequency |-> Cardinality(bucket(canon, k[1], k[2])),
           percent_listens |-> << Cardinality(bucket(canon, k[1], k[2])),
                                  Cardinality(listens(k[1])) >>,
           skip |-> None] : k \in keys }

\* preprocess.py lines 72-75
AggregateTrackLengths ==
    /\ dd_pc = "cleaned"
    /\ TrackLengths' = track_lengths(canonical)
    /\ dd_pc' = "aggregated"
    /\ UNCHANGED << batches, supplied, raw_listens, Artists, Tracks,
                    canonical >>
    /\ UNCHANGED not_dd_vars

\* the listens flat cut into files after the positions cuts: each file holds
\* at least one listen
Batches(flat, cuts) ==
    LET cut(b) == CHOOSE c \in cuts : Cardinality({ x \in cuts : x <= c }) = b
        first(b) == IF b = 1 THEN 1 ELSE cut(b - 1) + 1
        last(b) == IF b = Cardinality(cuts) + 1 THEN Len(flat) ELSE cut(b)
    IN  IF flat = << >> THEN << >>
        ELSE [b \in 1..(Cardinality(cuts) + 1) |->
                 SubSeq(flat, first(b), last(b))]

DedupInit ==
    /\ \E k \in 0..MaxRawListens :
          \E flat \in [1..k -> RawSamples], cuts \in SUBSET (1..(k - 1)) :
             /\ Cardinality(cuts) < MaxBatches
             /\ batches = Batches(flat, cuts)
    /\ supplied = << >>
    /\ raw_listens = << >>
    /\ Artists = << >>
    /\ Tracks = << >>
    /\ TrackLengths = {}
    /\ canonical = << >>
    /\ dd_pc = "load"
    /\ durations = << >>
    /\ pc = "idle"
    /\ any_non_skips = FALSE
    /\ shortest_non_skip = None
    /\ runs = 0
    /\ first_run = << >>
    /\ StreamingHistory = {}
    /\ download_dates = << >>
    /\ ListenDates = << >>
    /\ cal_pc = "idle"
    /\ this_date = 0
    /\ result = << TRUE >>
    /\ config_keys = {}
    /\ committed_tl = << >>
    /\ session_tl = << >>
    /\ todo = {}
    /\ proj_pc = "idle"
    /\ user_date = None
    /\ self_date = None
    /\ stored_date = None
    /\ StreamingHistoryRaw = {}
    /\ dl_pc = "idle"
    /\ committed_dates = << >>
    /\ Projects = {}
    /\ files = {}
    /\ mgr_name = << >>
    /\ mgr_path = << >>
    /\ mgr_result = "none"
    /\ mgr_calls = 0
    /\ disk = << >>
    /\ Downloads = {}
    /\ StreamingHistories = {}
    /\ raw_streams = {}
    /\ sv_path = ""
    /\ sv_result = "none"
    /\ sv_calls = 0
    /\ main_pc = "idle"
    /\ stage_log = << >>
    /\ lyt_downloads_list = << >>
    /\ downloads = << >>
    /\ btn_index = 0
    /\ dwn_index = 0
    /\ gui_pc = "idle"
    /\ gui_calls = 0

DedupNext ==
    \/ SaveStreamingHistory
    \/ LoadArtistsTracks
    \/ CleanStreamingHistory
    \/ AggregateTrackLengths

\* the listens of a project loaded, cleaned and aggregated
DedupSpec == DedupInit /\ [][DedupNext]_vars

-----------------------------------------------------------------------------
(* projects/manager.py create_project, checks.py project_state and        *)
(* utils.py clean_project_name. A name is a sequence of characters, a     *)
(* path a directory and a file name.                                      *)

MaxNameLen == 2
MaxCreateCalls == 2

NameChars == { "a", "A", " " }
\* the names given to projects: they start with a letter
Names == UNION { { name \in [1..n -> NameChars] : name[1] # " " } :
                 n \in 1..MaxNameLen }

\* str.lower() on one character
lower(c) == IF c = "A" THEN "a" ELSE c

\* utils.py line 43: re.sub(r'[^\w-]', '', n) keeps letters, digits,
\* underscores and hyphens
RECURSIVE sub_non_word(_)
sub_non_word(n) ==
    IF n = << >> THEN << >>
    ELSE IF Head(n) \in { " ", "." }
         THEN sub_non_word(Tail(n))
         ELSE << Head(n) >> \o sub_non_word(Tail(n))

DotDb == << ".", "d", "b" >>

\* utils.py lines 42-44
clean_project_name(name) ==
    LET n == [i \in 1..Len(name) |-> lower(name[i])]
        endswith == Len(n) >= 3 /\ SubSeq(n, Len(n) - 2, Len(n)) = DotDb
    IN  sub_non_word(IF endswith THEN SubSeq(n, 1, Len(n) - 3) ELSE n) \o DotDb

\* the database_path arguments: none, an existing directory, another path
DatabasePaths == { None, << "dir" >>, << "file" >> }

\* manager.py lines 161-168
determine_project_path(project_name, path) ==
    IF path = None
    THEN [dir |-> "sqlite/projects", file |-> clean_project_name(project_name)]
    ELSE IF path = << "dir" >>
    THEN [dir |-> "dir", file |-> clean_project_name(project_name)]
    ELSE [dir |-> "", file |-> path]

isfile(fs, path) == \E f \in fs : f.path = path

\* checks.py lines 45-87
project_state_mut(projects, fs, name) ==
    IF ~\E p \in projects : p.name = name THEN "UNDEFINED"
    ELSE "MISSING_DATABASE"

project_state(projects, fs, name) ==
    IF ~\E p \in projects : p.name = name THEN "UNDEFINED"
    ELSE LET path == (CHOOSE p \in projects : p.name = name).database_path
         IN  IF isfile(fs, path) THEN "EXISTS" ELSE "MISSING_DATABASE"

\* project_class.py lines 164-175: the engine creates the file when there is
\* none and create_all keeps a file that is there
create_database(fs, path, name) ==
    IF isfile(fs, path) THEN fs
    ELSE fs \cup { [path |-> path, owner |-> name] }

\* manager.py lines 52-123
CreateProject ==
    /\ mgr_calls < MaxCreateCalls
    /\ \E name \in Names, database_path \in DatabasePaths :
          LET state == project_state(Projects, files, name)
              path == determine_project_path(name, database_path)
              removed == { f \in files : f.path # path }
          IN  /\ mgr_name' = name
              /\ mgr_path' = database_path
              /\ IF state = "EXISTS"
                 THEN /\ mgr_result' = "ValueError"
                      /\ UNCHANGED << Projects, files >>
                 ELSE IF state = "MISSING_DATABASE"
                 THEN /\ files' = create_database(files, path, name)
                      /\ Projects' = { IF p.name = name
                                       THEN [p EXCEPT !.database_path = path]
                                       ELSE p : p \in Projects }
                      /\ mgr_result' = "returned"
                 ELSE \/ /\ isfile(files, path)
                         /\ mgr_result' = "AssertionError"
                         /\ UNCHANGED << Projects, files >>
                      \/ /\ files' = create_database(removed, path, name)
                         /\ Projects' = Projects \cup
                               { [name |-> name, database_path |-> path] }
                         /\ mgr_result' = "returned"
    /\ mgr_calls' = mgr_calls + 1
    /\ UNCHANGED not_mgr_vars

\* the database file of a project disappears from the disk, the case
\* ProjectState.MISSING_DATABASE names (checks.py lines 16-18)
DatabaseFileLost ==
    /\ \E f \in files : files' = files \ {f}
    /\ UNCHANGED << Projects, mgr_name, mgr_path, mgr_result, mgr_calls >>
    /\ UNCHANGED not_mgr_vars

MgrInit ==
    /\ Projects = {}
    /\ files = {}
    /\ mgr_name = << >>
    /\ mgr_path = << >>
    /\ mgr_result = "none"
    /\ mgr_calls = 0
    /\ durations = << >>
    /\ pc = "idle"
    /\ any_non_skips = FALSE
    /\ shortest_non_skip = None
    /\ runs = 0
    /\ first_run = << >>
    /\ StreamingHistory = {}
    /\ download_dates = << >>
    /\ ListenDates = << >>
    /\ cal_pc = "idle"
    /\ this_date = 0
    /\ result = << TRUE >>
    /\ config_keys = {}
    /\ committed_tl = << >>
    /\ session_tl = << >>
    /\ todo = {}
    /\ proj_pc = "idle"
    /\ user_date = None
    /\ self_date = None
    /\ stored_date = None
    /\ StreamingHistoryRaw = {}
    /\ dl_pc = "idle"
    /\ committed_dates = << >>
    /\ batches = << >>
    /\ supplied = << >>
    /\ raw_listens = << >>
    /\ Artists = << >>
    /\ Tracks = << >>
    /\ TrackLengths = {}
    /\ canonical = << >>
    /\ dd_pc = "idle"
    /\ disk = << >>
    /\ Downloads = {}
    /\ StreamingHistories = {}
    /\ raw_streams = {}
    /\ sv_path = ""
    /\ sv_result = "none"
    /\ sv_calls = 0
    /\ main_pc = "idle"
    /\ stage_log = << >>
    /\ lyt_downloads_list = << >>
    /\ downloads = << >>
    /\ btn_index = 0
    /\ dwn_index = 0
    /\ gui_pc = "idle"
    /\ gui_calls = 0

MgrNext ==
    \/ CreateProject
    \/ DatabaseFileLost

\* a sequence of create_project calls on one installation
MgrSpec == MgrInit /\ [][MgrNext]_vars

-----------------------------------------------------------------------------
(* projects/spotifyDownload.py: save() of the sqlite3 version, with the   *)
(* statements of projects/sql.py. Only the columns save() keys on are     *)
(* kept: start_time is left out.                                          *)

MaxFileListens == 2
MaxSaveCalls == 4

SavePaths == { "p1", "p2" }
SaveDays == { Date(2019, 2, 27), Date(2019, 3, 1) }
SaveDates == { None, << Date(2019, 2, 28) >> }

\* a download directory holds no streaming history file or one, and a file
\* holds at least one listen (save reads j[0])
FileOptions ==
    { None } \cup { << j >> : j \in UNION { [1..n -> SaveDays] :
                                              n \in 1..MaxFileListens } }

\* the rowid sqlite gives a new row
next_id(table) ==
    IF table = {} THEN 1 ELSE Max({ r.id : r \in table }) + 1

\* utils.date_to_str: a string, empty for None
date_to_str(d) == IF d = None THEN << "str" >> ELSE << "str", d[1] >>

\* sql.py lines 40-45, GET_LAST_END_TIME
last_end_time(download_rows, histories, raw, download_id) ==
    LET days == { r.end_time : r \in
                    { x \in raw : \E h \in histories, d \in download_rows :
                          /\ x.history_id = h.id
                          /\ h.download_id = d.id
                          /\ d.id = download_id } }
    IN  IF days = {} THEN None ELSE << Max(days) >>

\* spotifyDownload.py lines 180-236 and 138-178
Save ==
    /\ sv_calls < MaxSaveCalls
    /\ \E path \in SavePaths, date \in SaveDates :
          LET ignored == \E d \in Downloads : d.path = path
              downloads1 ==
                  IF ignored THEN Downloads
                  ELSE Downloads \cup
                          { [id |-> next_id(Downloads), path |-> path,
                             download_date |-> date_to_str(date)] }
              \* db.get_last_id: last_insert_rowid() of a new connection is
              \* 0 until an INSERT has succeeded on it
              download_id == IF ignored THEN 0 ELSE next_id(Downloads)
              file == disk[path]
              hist_new ==
                  /\ file # None
                  /\ ~\E h \in StreamingHistories :
                         /\ h.download_id = download_id
                         /\ h.file_name = "StreamingHistory0.json"
              histories1 ==
                  IF hist_new
                  THEN StreamingHistories \cup
                          { [id |-> next_id(StreamingHistories),
                             download_id |-> download_id,
                             file_name |-> "StreamingHistory0.json"] }
                  ELSE StreamingHistories
              history_id == IF hist_new THEN next_id(StreamingHistories)
                            ELSE download_id
              new_raw ==
                  IF file = None THEN {}
                  ELSE { [history_id |-> history_id, position |-> p,
                          end_time |-> file[1][p]] : p \in 1..Len(file[1]) }
              conflict ==
                  \E r \in raw_streams, n \in new_raw :
                     /\ r.history_id = n.history_id
                     /\ r.position = n.position
              raw1 == raw_streams \cup new_raw
              end_date == last_end_time(downloads1, histories1, raw1,
                                        download_id)
              changed == \/ date = None
                         \/ end_date # None /\ date[1] < end_date[1]
          IN  /\ sv_path' = path
              /\ IF conflict
                 THEN \* ADD_RAW_STREAM is a plain INSERT: IntegrityError,
                      \* the with block rolls back
                      /\ sv_result' = "IntegrityError"
                      /\ UNCHANGED << Downloads, StreamingHistories,
                                      raw_streams >>
                 ELSE /\ StreamingHistories' = histories1
                      /\ raw_streams' = raw1
                      /\ IF date # None /\ end_date = None
                         THEN \* self.date < None
                              /\ sv_result' = "TypeError"
                              /\ Downloads' = downloads1
                         ELSE /\ sv_result' = "returned"
                              /\ Downloads' =
                                    IF changed
                                    THEN { IF d.id = download_id
                                           THEN [d EXCEPT !.download_date =
                                                    date_to_str(end_date)]
                                           ELSE d : d \in downloads1 }
                                    ELSE downloads1
    /\ sv_calls' = sv_calls + 1
    /\ UNCHANGED disk
    /\ UNCHANGED not_sv_vars

SaveInit ==
    /\ disk \in [SavePaths -> FileOptions]
    /\ Downloads = {}
    /\ StreamingHistories = {}
    /\ raw_streams = {}
    /\ sv_path = ""
    /\ sv_result = "none"
    /\ sv_calls = 0
    /\ durations = << >>
    /\ pc = "idle"
    /\ any_non_skips = FALSE
    /\ shortest_non_skip = None
    /\ runs = 0
    /\ first_run = << >>
    /\ StreamingHistory = {}
    /\ download_dates = << >>
    /\ ListenDates = << >>
    /\ cal_pc = "idle"
    /\ this_date = 0
    /\ result = << TRUE >>
    /\ config_keys = {}
    /\ committed_tl = << >>
    /\ session_tl = << >>
    /\ todo = {}
    /\ proj_pc = "idle"
    /\ user_date = None
    /\ self_date = None
    /\ stored_date = None
    /\ StreamingHistoryRaw = {}
    /\ dl_pc = "idle"
    /\ committed_dates = << >>
    /\ batches = << >>
    /\ supplied = << >>
    /\ raw_listens = << >>
    /\ Artists = << >>
    /\ Tracks = << >>
    /\ TrackLengths = {}
    /\ canonical = << >>
    /\ dd_pc = "idle"
    /\ Projects = {}
    /\ files = {}
    /\ mgr_name = << >>
    /\ mgr_path = << >>
    /\ mgr_result = "none"
    /\ mgr_calls = 0
    /\ main_pc = "idle"
    /\ stage_log = << >>
    /\ lyt_downloads_list = << >>
    /\ downloads = << >>
    /\ btn_index = 0
    /\ dwn_index = 0
    /\ gui_pc = "idle"
    /\ gui_calls = 0

SaveNext ==
    \/ Save

\* a sequence of save() calls on one project
SaveSpec == SaveInit /\ [][SaveNext]_vars

-----------------------------------------------------------------------------
(* projects/preprocess.py: main, lines 60-89, one pass over a project     *)

\* lines 60-89: the statement that follows each step
next_stage_mut(stage) ==
    CASE stage = "load_artists_tracks" -> "load_track_lengths"
      [] stage = "load_track_lengths" -> "clean_streaming_history"
      [] stage = "clean_streaming_history" -> "list_dates"
      [] stage = "list_dates" -> "identify_missing_dates"
      [] stage = "identify_missing_dates" -> "correct_date_anomalies"
      [] stage = "correct_date_anomalies" -> "return"

next_stage(stage) ==
    CASE stage = "load_artists_tracks" -> "clean_streaming_history"
      [] stage = "clean_streaming_history" -> "load_track_lengths"
      [] stage = "load_track_lengths" -> "list_dates"
      [] stage = "list_dates" -> "identify_missing_dates"
      [] stage = "identify_missing_dates" -> "correct_date_anomalies"
      [] stage = "correct_date_anomalies" -> "return"

\* what every step of main leaves alone
not_main_step_vars ==
    << durations, pc, any_non_skips, shortest_non_skip, runs, first_run,
       StreamingHistory, download_dates, cal_pc, this_date, result,
       proj_vars, dl_vars, db_vars, batches, supplied, raw_listens, dd_pc,
       mgr_vars, sv_vars, gui_vars >>

\* lines 62-64
MainLoadArtistsTracks ==
    /\ main_pc = "load_artists_tracks"
    /\ LET loaded == load_tracks(raw_listens, Len(raw_listens))
       IN  /\ Artists' = loaded.artists
           /\ Tracks' = loaded.tracks
    /\ main_pc' = next_stage(main_pc)
    /\ stage_log' = Append(stage_log, main_pc)
    /\ UNCHANGED << canonical, TrackLengths, ListenDates >>
    /\ UNCHANGED not_main_step_vars

\* lines 63 and 74: sql.py defines neither LOAD_ARTISTS_TRACKS_SCRIPT nor
\* LOAD_TRACK_LENGTHS_SCRIPT; with sql.py as it stands the step raises
\* AttributeError and the pass ends
MainAttributeError ==
    /\ main_pc \in { "load_artists_tracks", "load_track_lengths" }
    /\ main_pc' = "AttributeError"
    /\ UNCHANGED << stage_log, Artists, Tracks, canonical, TrackLengths,
                    ListenDates >>
    /\ UNCHANGED not_main_step_vars

\* lines 66-70
MainCleanStreamingHistory ==
    /\ main_pc = "clean_streaming_history"
    /\ canonical' = clean_streaming_history(raw_listens, Artists, Tracks)
    /\ main_pc' = next_stage(main_pc)
    /\ stage_log' = Append(stage_log, main_pc)
    /\ UNCHANGED << Artists, Tracks, TrackLengths, ListenDates >>
    /\ UNCHANGED not_main_step_vars

\* lines 72-75
MainLoadTrackLengths ==
    /\ main_pc = "load_track_lengths"
    /\ TrackLengths' = track_lengths(canonical)
    /\ main_pc' = next_stage(main_pc)
    /\ stage_log' = Append(stage_log, main_pc)
    /\ UNCHANGED << Artists, Tracks, canonical, ListenDates >>
    /\ UNCHANGED not_main_step_vars

\* the end times list_dates selects from the StreamingHistory table
canonical_history(canon) == { canon[i].end_time : i \in 1..Len(canon) }

\* lines 77-79
MainListDates ==
    /\ main_pc = "list_dates"
    /\ IF list_dates_raises(canonical_history(canonical))
       THEN /\ main_pc' = "IndexError"
            /\ UNCHANGED << stage_log, ListenDates >>
       ELSE /\ ListenDates' =
                  ListenDates \o list_dates_rows(canonical_history(canonical))
            /\ main_pc' = next_stage(main_pc)
            /\ stage_log' = Append(stage_log, main_pc)
    /\ UNCHANGED << Artists, Tracks, canonical, TrackLengths >>
    /\ UNCHANGED not_main_step_vars

\* lines 81-83
MainIdentifyMissingDates ==
    /\ main_pc = "identify_missing_dates"
    /\ ListenDates' =
         [n \in 1..Len(ListenDates) |->
            [ListenDates[n] EXCEPT
                !.is_missing = << is_date_missing(ListenDates[n].day,
                                                  download_dates) >>]]
    /\ main_pc' = next_stage(main_pc)
    /\ stage_log' = Append(stage_log, main_pc)
    /\ UNCHANGED << Artists, Tracks, canonical, TrackLengths >>
    /\ UNCHANGED not_main_step_vars

\* lines 85-89
MainCorrectDateAnomalies ==
    /\ main_pc = "correct_date_anomalies"
    /\ ListenDates' =
         [n \in 1..Len(ListenDates) |->
            IF /\ ListenDates[n].has_listen
               /\ ListenDates[n].is_missing = << TRUE >>
            THEN [ListenDates[n] EXCEPT !.is_missing = << FALSE >>]
            ELSE ListenDates[n]]
    /\ main_pc' = next_stage(main_pc)
    /\ stage_log' = Append(stage_log, main_pc)
    /\ UNCHANGED << Artists, Tracks, canonical, TrackLengths >>
    /\ UNCHANGED not_main_step_vars

\* a project with one download of one streaming history file, saved
MainInit ==
    /\ \E k \in 0..MaxRawListens :
          \E flat \in [1..k -> RawSamples] :
             /\ batches = Batches(flat, {})
             /\ supplied = [b \in 1..Len(batches) |-> b]
             /\ raw_listens = records(1, flat)
    /\ download_dates \in
          { dd \in SeqsUpTo(DownloadDateValues, 1) :
               raw_listens # << >> => dd # << >> }
    /\ main_pc = "load_artists_tracks"
    /\ stage_log = << >>
    /\ durations = << >>
    /\ pc = "idle"
    /\ any_non_skips = FALSE
    /\ shortest_non_skip = None
    /\ runs = 0
    /\ first_run = << >>
    /\ StreamingHistory = {}
    /\ ListenDates = << >>
    /\ cal_pc = "idle"
    /\ this_date = 0
    /\ result = << TRUE >>
    /\ config_keys = {}
    /\ committed_tl = << >>
    /\ session_tl = << >>
    /\ todo = {}
    /\ proj_pc = "idle"
    /\ user_date = None
    /\ self_date = None
    /\ stored_date = None
    /\ StreamingHistoryRaw = {}
    /\ dl_pc = "idle"
    /\ committed_dates = << >>
    /\ Artists = << >>
    /\ Tracks = << >>
    /\ TrackLengths = {}
    /\ canonical = << >>
    /\ dd_pc = "idle"
    /\ Projects = {}
    /\ files = {}
    /\ mgr_name = << >>
    /\ mgr_path = << >>
    /\ mgr_result = "none"
    /\ mgr_calls = 0
    /\ disk = << >>
    /\ Downloads = {}
    /\ StreamingHistories = {}
    /\ raw_streams = {}
    /\ sv_path = ""
    /\ sv_result = "none"
    /\ sv_calls = 0
    /\ lyt_downloads_list = << >>
    /\ downloads = << >>
    /\ btn_index = 0
    /\ dwn_index = 0
    /\ gui_pc = "idle"
    /\ gui_calls = 0

MainNext ==
    \/ MainLoadArtistsTracks
    \/ MainAttributeError
    \/ MainCleanStreamingHistory
    \/ MainLoadTrackLengths
    \/ MainListDates
    \/ MainIdentifyMissingDates
    \/ MainCorrectDateAnomalies

\* one preprocessing pass
MainSpec == MainInit /\ [][MainNext]_vars

-----------------------------------------------------------------------------
(* gui/windows/project.py: ProjectBody.refresh and update_downloads_list  *)

MaxListed == 2
MaxRefreshCalls == 2

DownloadPaths == { "a", "b", "c" }

\* lists of downloads with distinct paths
DownloadLists ==
    UNION { { d \in [1..n -> DownloadPaths] :
                 \A i, j \in 1..n : d[i] = d[j] => i = j } : n \in 0..MaxListed }

\* QBoxLayout.insertWidget(index, widget), index counted from 0
insertWidget(lyt, index, widget) ==
    [i \in 1..(Len(lyt) + 1) |->
        IF i <= index THEN lyt[i]
        ELSE IF i = index + 1 THEN widget
        ELSE lyt[i - 1]]

\* lines 464-466: removeItem(itemAt(index))
remove_btn(lyt, index) ==
    [i \in 1..(Len(lyt) - 1) |-> IF i <= index THEN lyt[i] ELSE lyt[i + 1]]

\* lines 305-324: refresh with the downloads the project has now
Refresh ==
    /\ gui_pc = "idle"
    /\ gui_calls < MaxRefreshCalls
    /\ \E d \in DownloadLists :
          /\ downloads' = d
          /\ gui_pc' = IF d = << >> THEN "idle" ELSE "loop"
    /\ btn_index' = 0
    /\ dwn_index' = 0
    /\ gui_calls' = gui_calls + 1
    /\ UNCHANGED lyt_downloads_list
    /\ UNCHANGED not_gui_vars

\* lines 471-472
loop_condition(lyt, btn, dwn, dwns) ==
    btn < Len(lyt) - 1 \/ dwn < Len(dwns)

\* lines 474-501, one iteration of the loop
LoopIteration ==
    /\ gui_pc = "loop"
    /\ loop_condition(lyt_downloads_list, btn_index, dwn_index, downloads)
    /\ LET count == Len(lyt_downloads_list)
           path == lyt_downloads_list[btn_index + 1]
       IN  IF btn_index = count - 1
           THEN /\ lyt_downloads_list' =
                      insertWidget(lyt_downloads_list, count - 1,
                                   downloads[dwn_index + 1])
                /\ btn_index' = btn_index + 1
                /\ dwn_index' = dwn_index + 1
           ELSE IF dwn_index = Len(downloads)
           THEN /\ lyt_downloads_list' =
                      remove_btn(lyt_downloads_list, btn_index)
                /\ UNCHANGED << btn_index, dwn_index >>
           ELSE IF ~InSeq(path, downloads)
           THEN /\ lyt_downloads_list' =
                      remove_btn(lyt_downloads_list, btn_index)
                /\ UNCHANGED << btn_index, dwn_index >>
           ELSE IF path # downloads[dwn_index + 1]
           THEN /\ lyt_downloads_list' =
                      insertWidget(lyt_downloads_list, btn_index,
                                   downloads[dwn_index + 1])
                /\ btn_index' = btn_index
                /\ dwn_index' = dwn_index + 1
           ELSE /\ lyt_downloads_list' = lyt_downloads_list
                /\ btn_index' = btn_index + 1
                /\ dwn_index' = dwn_index + 1
    /\ UNCHANGED << downloads, gui_pc, gui_calls >>
    /\ UNCHANGED not_gui_vars

\* lines 471-472 and 323: the loop ends and refresh shows the list
LoopExit ==
    /\ gui_pc = "loop"
    /\ ~loop_condition(lyt_downloads_list, btn_index, dwn_index, downloads)
    /\ gui_pc' = "idle"
    /\ UNCHANGED << lyt_downloads_list, downloads, btn_index, dwn_index,
                    gui_calls >>
    /\ UNCHANGED not_gui_vars

\* lines 298 and 395: the layout holds the stretch only
GuiInit ==
    /\ lyt_downloads_list = << "stretch" >>
    /\ downloads = << >>
    /\ btn_index = 0
    /\ dwn_index = 0
    /\ gui_pc = "idle"
    /\ gui_calls = 0
    /\ durations = << >>
    /\ pc = "idle"
    /\ any_non_skips = FALSE
    /\ shortest_non_skip = None
    /\ runs = 0
    /\ first_run = << >>
    /\ StreamingHistory = {}
    /\ download_dates = << >>
    /\ ListenDates = << >>
    /\ cal_pc = "idle"
    /\ this_date = 0
    /\ result = << TRUE >>
    /\ config_keys = {}
    /\ committed_tl = << >>
    /\ session_tl = << >>
    /\ todo = {}
    /\ proj_pc = "idle"
    /\ user_date = None
    /\ self_date = None
    /\ stored_date = None
    /\ StreamingHistoryRaw = {}
    /\ dl_pc = "idle"
    /\ committed_dates = << >>
    /\ batches = << >>
    /\ supplied = << >>
    /\ raw_listens = << >>
    /\ Artists = << >>
    /\ Tracks = << >>
    /\ TrackLengths = {}
    /\ canonical = << >>
    /\ dd_pc = "idle"
    /\ Projects = {}
    /\ files = {}
    /\ mgr_name = << >>
    /\ mgr_path = << >>
    /\ mgr_result = "none"
    /\ mgr_calls = 0
    /\ disk = << >>
    /\ Downloads = {}
    /\ StreamingHistories = {}
    /\ raw_streams = {}
    /\ sv_path = ""
    /\ sv_result = "none"
    /\ sv_calls = 0
    /\ main_pc = "idle"
    /\ stage_log = << >>

GuiNext ==
    \/ Refresh
    \/ LoopIteration
    \/ LoopExit

\* the body of a project window refreshed several times
GuiSpec == GuiInit /\ [][GuiNext]_vars

SkipNext ==
    \/ FrequencyStage
    \/ FallbackStage
    \/ ShortestStage
    \/ ProximityStage
    \/ DefaultStage
    \/ CleanupStage
    \/ Rerun

CalNext ==
    \/ ListDates
    \/ IdentifyMissingDates
    \/ CorrectDateAnomalies
    \/ CloseSession

DateNext ==
    \/ CallIsDateMissing

\* the classifier on the rows of one track
SkipSpec == SkipInit /\ [][SkipNext]_vars

\* the calendar steps of preprocess.main
CalSpec == CalInit /\ [][CalNext]_vars

\* is_date_missing as a function of its arguments
DateSpec == DateInit /\ [][DateNext]_vars

-----------------------------------------------------------------------------
(* Properties of the skip classifier *)

\* The label a skip attribute stands for, whichever way it is stored
Label(s) ==
    IF s = None THEN "UNSET"
    ELSE IF s[2] = 2 THEN "NON_SKIP"
    ELSE IF s[2] = 1 THEN "SKIP"
    ELSE "UNSET"

NonSkipMs(ds) ==
    { ds[i].ms_played : i \in { j \in Rows(ds) : Label(ds[j].skip) = "NON_SKIP" } }

\* C1 - Classifier totality: once the default stage has run, and when
\* _determine_skips_for_track has returned, every row of the (non-empty)
\* track is labeled SKIP or NON_SKIP; none is left unset.
C1_ClassifierTotality ==
    pc \in {"cleanup", "done"} =>
        \A i \in Rows(durations) :
            Label(durations[i].skip) \in {"SKIP", "NON_SKIP"}

C1_Witness ==
    /\ pc = "done"
    /\ \E i, j \in Rows(durations) :
          /\ durations[i].skip = SkipStateValue(SkipState_SKIP)
          /\ durations[j].skip = SkipStateValue(SkipState_NON_SKIP)

\* C2 - Monotonic promotion: within one run, a row that a stage has labeled
\* NON_SKIP is still NON_SKIP after every later step of the run, up to and
\* including the value the run returns.
C2_MonotonicPromotion ==
    [][\A i \in Rows(durations) :
          (pc # "frequency" /\ Label(durations[i].skip) = "NON_SKIP")
              => Label(durations'[i].skip) = "NON_SKIP"]_vars

C2_Witness ==
    /\ pc = "done"
    /\ shortest_non_skip = << 0 >>
    /\ \E i, j \in Rows(durations) :
          /\ Label(durations[i].skip) = "NON_SKIP"
          /\ Label(durations[j].skip) = "SKIP"

\* C3 - Fallback-longest: when the frequency stage labeled nothing NON_SKIP,
\* the fallback labels the row with the greatest ms_played NON_SKIP iff that
\* ms_played >= 10000, whatever the order of the rows, and changes no other
\* row; when a frequency-stage NON_SKIP exists it changes nothing.
C3_FallbackLongest ==
    [][(pc = "fallback" /\ durations # << >>) =>
         LET longest == CHOOSE i \in Rows(durations) :
                           \A j \in Rows(durations) :
                               durations[j].ms_played <= durations[i].ms_played
         IN  IF NonSkipMs(durations) = {}
             THEN /\ Label(durations'[longest].skip) = "NON_SKIP"
                        <=> durations[longest].ms_played >= 10000
                  /\ \A j \in Rows(durations) \ {longest} :
                        durations'[j] = durations[j]
             ELSE durations' = durations]_vars

\* C4 - Proximity stage: with shortest_non_skip the minimum ms_played of the
\* rows that are NON_SKIP after stages 1-2 (0 included), every unset row d
\* becomes NON_SKIP iff d >= shortest_non_skip * (1 - 0.02), inclusive; with
\* no NON_SKIP row the stage changes nothing.
C4_ProximityStage ==
    [][pc = "proximity" =>
         LET ns == NonSkipMs(durations)
         IN  IF ns = {}
             THEN durations' = durations
             ELSE \A i \in Rows(durations) :
                     durations[i].skip = None =>
                        (Label(durations'[i].skip) = "NON_SKIP"
                            <=> 100 * durations[i].ms_played >= 98 * Min(ns))]_vars

\* C5 - Frequency stage: stage 1 labels a row NON_SKIP iff frequency >= 6,
\* or frequency >= 2 and percent_listens >= 0.1 (all inclusive), and leaves
\* every other row unset.
C5_FrequencyStage ==
    [][pc = "frequency" =>
         \A i \in Rows(durations) :
            LET d == durations[i]
                qualifies ==
                    \/ d.frequency >= 6
                    \/ /\ d.frequency >= 2
                       /\ 10 * d.percent_listens[1] >= d.percent_listens[2]
            IN  durations'[i].skip =
                    IF qualifies THEN SkipState_NON_SKIP ELSE None]_vars

C5_Witness ==
    /\ pc = "fallback"
    /\ \E i, j \in Rows(durations) :
          \* exactly at the absolute threshold, below the percentage
          /\ durations[i].frequency = 6
          /\ 10 * durations[i].percent_listens[1] < durations[i].percent_listens[2]
          /\ durations[i].skip = SkipState_NON_SKIP
          \* at the minimum frequency, below the percentage
          /\ durations[j].frequency = 2
          /\ durations[j].skip = None

\* C6 - Idempotence: a second run on rows that carry the labels of the
\* first run returns exactly the labels of the first run.
C6_Idempotence ==
    (pc = "done" /\ runs >= 2) => Labels(durations) = first_run

C6_Witness ==
    /\ pc = "done"
    /\ runs = 2
    /\ ~any_non_skips
    /\ \E i, j \in Rows(durations) :
          /\ Label(durations[i].skip) = "NON_SKIP"
          /\ Label(durations[j].skip) = "SKIP"

-----------------------------------------------------------------------------
(* Properties of the calendar builder *)

HasListenOn(day) == \E l \in StreamingHistory : l.day = day

FirstListenDay == Min({ l.day : l \in StreamingHistory })
LastListenDay == Max({ l.day : l \in StreamingHistory })

C8_CalendarRange ==
    cal_pc \in {"identify_missing_dates", "correct_date_anomalies", "done"} =>
        /\ { ListenDates[n].day : n \in 1..Len(ListenDates) }
              = FirstListenDay..LastListenDay
        /\ Len(ListenDates) = LastListenDay - FirstListenDay + 1

\* C9 - has_listen: for every row list_dates leaves, has_listen is true iff
\* some listen ended on that calendar day, at any time of day.
C9_HasListen ==
    cal_pc \in {"identify_missing_dates", "correct_date_anomalies", "done"} =>
        \A n \in 1..Len(ListenDates) :
            ListenDates[n].has_listen <=> HasListenOn(ListenDates[n].day)

-----------------------------------------------------------------------------
(* Empty inputs *)

\* C11 - Empty dataset: with no canonical listen at all, the calendar steps
\* complete without raising and leave zero ListenDates rows.
C11_EmptyDataset ==
    StreamingHistory = {} =>
        /\ cal_pc # "IndexError"
        /\ ListenDates = << >>

\* C12 - Zero duration rows (as claimed): the per-track classifier on an
\* empty list returns without raising.
C12_EmptyTrackNoOp ==
    durations = << >> => pc # "IndexError"

\* C12 - Zero duration rows (amended): on an empty list the per-track
\* classifier raises IndexError at the fallback stage and never returns,
\* no row being changed; on a non-empty list it never raises.
C12_EmptyTrackRaises ==
    /\ (pc # "idle" /\ durations = << >>)
          => pc \in {"frequency", "fallback", "IndexError"}
    /\ pc = "IndexError" => durations = << >>

C12_Witness ==
    /\ pc = "IndexError"
    /\ durations = << >>
    /\ ~any_non_skips

-----------------------------------------------------------------------------
(* Properties of determine_skips on a whole project *)

\* the stage actions and the one-function form compute the same labels
StagesAgree ==
    (pc = "done" /\ durations # << >>)
        => durations = determine_skips_for_track(durations)

AllRows(tl) == { << t, i >> \in (DOMAIN tl) \X (1..MaxTrackRows + 1) :
                    i \in Rows(tl[t]) }

Unlabeled(tl) == \A r \in AllRows(tl) : tl[r[1]][r[2]].skip = None

\* C13 - Missing configuration: when one of the five thresholds is absent
\* from the project configuration, classification aborts for the whole
\* project and no row is labeled, neither in the session nor in the database.
C13_MissingConfiguration ==
    config_keys # ConfigKeys =>
        /\ Unlabeled(committed_tl)
        /\ Unlabeled(session_tl)

\* C16 - Atomic visibility: the committed TrackLengths rows are either all
\* as they were before the run (no label) or all carry the labels of the run;
\* they change only when the run commits, and after a failure they are the
\* rows committed before the run.
C16_AtomicVisibility ==
    /\ \/ Unlabeled(committed_tl)
       \/ /\ proj_pc = "done"
          /\ \A r \in AllRows(committed_tl) :
                Label(committed_tl[r[1]][r[2]].skip) \in {"SKIP", "NON_SKIP"}
    /\ proj_pc \in {"loop", "failed"} => Unlabeled(committed_tl)

\* a run that has labeled one track in its session and not yet another
C16_Witness ==
    /\ proj_pc = "loop"
    /\ todo # {}
    /\ todo # DOMAIN session_tl
    /\ ~Unlabeled(session_tl)
    /\ Unlabeled(committed_tl)

-----------------------------------------------------------------------------
(* Properties of the download date *)

LatestRawDay == DateColumn(max_end_time(StreamingHistoryRaw))

\* C14 - Download date correction: after load() of a download with at least
\* one raw listen the stored download_date is never earlier than the latest
\* raw listen date; it is the user's date when that is on or after the latest
\* listen date, and the latest listen date when the user gave none or an
\* earlier one; the in-memory date equals the stored one.
C14_DownloadDateCorrection ==
    (dl_pc = "loaded" /\ StreamingHistoryRaw # {}) =>
        /\ stored_date # None
        /\ stored_date[1] >= LatestRawDay
        /\ (user_date # None /\ user_date[1] >= LatestRawDay)
              => stored_date = user_date
        /\ (user_date = None \/ user_date[1] < LatestRawDay)
              => stored_date = << LatestRawDay >>
        /\ self_date = stored_date

\* a user date earlier than the last listen was overridden
C14_Witness ==
    /\ dl_pc = "loaded"
    /\ user_date # None
    /\ user_date[1] < LatestRawDay
    /\ stored_date = << LatestRawDay >>
    /\ Cardinality(StreamingHistoryRaw) > 1

-----------------------------------------------------------------------------
(* Properties of the persistence of the preprocessing pass *)

-----------------------------------------------------------------------------
(* Properties of the deduplication *)

\* the (end_timestamp, artist_name, track_name, ms_played) of a raw listen
RawEvent(r) == << r.end_time, r.artist_name, r.track_name, r.ms_played >>

\* the same tuple of a canonical row, its track id read back in Tracks
CanonicalEvent(c) ==
    LET pair == IF c.track_id = None THEN UnknownPair
                ELSE << Artists[Tracks[c.track_id[1]].artist_id],
                        Tracks[c.track_id[1]].name >>
    IN  << c.end_time, pair[1], pair[2], c.ms_played >>

BatchEvents(b) == { RawEvent(batches[b][i]) : i \in 1..Len(batches[b]) }

\* C18 - Dedup uniqueness: after deduplication no two canonical rows share
\* (end_timestamp, track_id, ms_played), and every distinct raw
\* (end_timestamp, artist_name, track_name, ms_played) is the tuple of
\* exactly one canonical row.
C18_DedupUniqueness ==
    dd_pc = "cleaned" =>
        /\ \A i, j \in 1..Len(canonical) :
              (/\ canonical[i].end_time = canonical[j].end_time
               /\ canonical[i].track_id = canonical[j].track_id
               /\ canonical[i].ms_played = canonical[j].ms_played) => i = j
        /\ \A k \in 1..Len(raw_listens) :
              Cardinality({ i \in 1..Len(canonical) :
                  CanonicalEvent(canonical[i]) = RawEvent(raw_listens[k]) }) = 1

\* duplicates were collapsed and listens that differ in ms_played only kept
C18_Witness ==
    /\ dd_pc = "cleaned"
    /\ Len(canonical) < Len(raw_listens)
    /\ \E i, j \in 1..Len(canonical) :
          /\ canonical[i].end_time = canonical[j].end_time
          /\ canonical[i].track_id = canonical[j].track_id
          /\ canonical[i].ms_played # canonical[j].ms_played

\* C19 - Dedup order-independence: in whichever order the batches were
\* supplied, the events of the canonical rows are the union of the distinct
\* events of the batches, an event of two batches counted once.
C19_DedupOrderIndependence ==
    dd_pc = "cleaned" =>
        /\ { CanonicalEvent(canonical[i]) : i \in 1..Len(canonical) }
              = UNION { BatchEvents(b) : b \in DOMAIN batches }
        /\ Len(canonical)
              = Cardinality(UNION { BatchEvents(b) : b \in DOMAIN batches })

\* two overlapping, different batches supplied second first
C19_Witness ==
    /\ dd_pc = "cleaned"
    /\ Len(supplied) >= 2
    /\ supplied[1] = 2
    /\ supplied[2] = 1
    /\ BatchEvents(1) \cap BatchEvents(2) # {}
    /\ BatchEvents(1) # BatchEvents(2)

\* C20 - Dense canonical positions: the positions of the canonical rows are
\* consecutive without gap or repeat, and end_timestamp never decreases as
\* the position grows.
C20_DensePositions ==
    dd_pc = "cleaned" =>
        /\ \A i \in 1..Len(canonical) : canonical[i].position = i
        /\ \A i, j \in 1..Len(canonical) :
              canonical[i].position < canonical[j].position
                 => ~DtBefore(canonical[j].end_time, canonical[i].end_time)

\* the raw table held a later listen before an earlier one
C20_Witness ==
    /\ dd_pc = "cleaned"
    /\ Len(canonical) >= 2
    /\ \E k \in 1..(Len(raw_listens) - 1) :
          DtBefore(raw_listens[k + 1].end_time, raw_listens[k].end_time)

-----------------------------------------------------------------------------
(* Further properties of the skip classifier *)

C30_DurationThreshold ==
    pc = "done" =>
        \A i, j \in Rows(durations) :
           (/\ Label(durations[i].skip) = "NON_SKIP"
            /\ Label(durations[j].skip) = "SKIP")
               => durations[i].ms_played > durations[j].ms_played

-----------------------------------------------------------------------------
(* Properties of the project manager *)

\* C25 - create_project on an existing project: a call with a name that is
\* listed in Projects and whose database file is present raises ValueError
\* and leaves the Projects table and every database file as they were.
C25_CreateExistingProject ==
    [][(/\ mgr_calls' # mgr_calls
        /\ \E p \in Projects : /\ p.name = mgr_name'
                               /\ isfile(files, p.database_path))
          => /\ mgr_result' = "ValueError"
             /\ Projects' = Projects
             /\ files' = files]_vars

\* the second call named a project the first had created
C25_Witness ==
    /\ mgr_result = "ValueError"
    /\ mgr_calls = 2
    /\ Cardinality(Projects) = 1
    /\ Cardinality(files) = 1

\* C29 - creating a project at the default location leaves in place, with
\* its content, the database file of every other project listed in Projects.
C29_OtherDatabaseKept ==
    [][(mgr_calls' # mgr_calls /\ mgr_path' = None)
          => \A p \in Projects :
                p.name # mgr_name' =>
                   \A f \in files :
                      (f.path = p.database_path /\ f.owner = p.name)
                         => f \in files']_vars

-----------------------------------------------------------------------------
(* Properties of save() *)

\* C26 - Duplicate save is ignored: a save() of a download whose path is
\* already in the Downloads table returns without error and leaves the
\* Downloads, StreamingHistories and StreamingHistoryRaw tables as they were.
C26_DuplicateSaveIgnored ==
    [][(/\ sv_calls' # sv_calls
        /\ \E d \in Downloads : d.path = sv_path')
          => /\ sv_result' = "returned"
             /\ Downloads' = Downloads
             /\ StreamingHistories' = StreamingHistories
             /\ raw_streams' = raw_streams]_vars

-----------------------------------------------------------------------------
(* Properties of the identity resolver *)

\* the raw listens that name the unknown pair
UnknownListens ==
    { k \in 1..Len(raw_listens) :
         << raw_listens[k].artist_name, raw_listens[k].track_name >>
            = UnknownPair }

\* C22 - Unknown pair handling: a listen named exactly "Unknown Track" by
\* "Unknown Artist" gets a null track reference and creates no Artist or
\* Track row: every Artist and Track row is named by a listen that is not
\* the unknown pair, and the canonical rows with a null track are the distinct
\* events of the unknown listens. An Artist row "Unknown Artist" exists only
\* if some listen names that artist with a track other than "Unknown Track".
C22_UnknownPairHandling ==
    dd_pc = "cleaned" =>
        /\ \A i \in 1..Len(Artists) :
              \E k \in (1..Len(raw_listens)) \ UnknownListens :
                 raw_listens[k].artist_name = Artists[i]
        /\ \A i \in 1..Len(Tracks) :
              \E k \in (1..Len(raw_listens)) \ UnknownListens :
                 /\ raw_listens[k].artist_name = Artists[Tracks[i].artist_id]
                 /\ raw_listens[k].track_name = Tracks[i].name
        /\ { << canonical[i].end_time, canonical[i].ms_played >> :
                i \in { j \in 1..Len(canonical) :
                           canonical[j].track_id = None } }
              = { << raw_listens[k].end_time, raw_listens[k].ms_played >> :
                     k \in UnknownListens }
        /\ Cardinality({ j \in 1..Len(canonical) :
                            canonical[j].track_id = None })
              = Cardinality({ RawEvent(raw_listens[k]) : k \in UnknownListens })
        /\ InSeq(UnknownPair[1], Artists) =>
              \E k \in 1..Len(raw_listens) :
                 /\ raw_listens[k].artist_name = UnknownPair[1]
                 /\ raw_listens[k].track_name # UnknownPair[2]

\* an unknown listen and a listen of an artist named "Unknown Artist" were
\* loaded and cleaned
C22_Witness ==
    /\ dd_pc = "cleaned"
    /\ UnknownListens # {}
    /\ InSeq(UnknownPair[1], Artists)
    /\ \E i \in 1..Len(canonical) : canonical[i].track_id = None
    /\ \E i \in 1..Len(canonical) : canonical[i].track_id # None

\* the pairs listens name
SamplePairs == { << r.artist_name, r.track_name >> : r \in RawSamples }

\* C23 - Identity resolution idempotence: resolving a pair again returns the
\* same artist and track ids and creates no further row, a pair of a loaded
\* listen creates no row at all, and after any sequence of resolutions artist
\* names are unique and (artist_id, track name) pairs are unique.
C23_ResolutionIdempotence ==
    /\ \A i, j \in 1..Len(Artists) : Artists[i] = Artists[j] => i = j
    /\ \A i, j \in 1..Len(Tracks) : Tracks[i] = Tracks[j] => i = j
    /\ \A p \in SamplePairs :
          LET r1 == resolve(Artists, Tracks, p[1], p[2])
              r2 == resolve(r1.artists, r1.tracks, p[1], p[2])
          IN  /\ r2 = r1
              /\ Len(r1.artists) <= Len(Artists) + 1
              /\ Len(r1.tracks) <= Len(Tracks) + 1
    /\ dd_pc # "load" =>
          \A k \in 1..Len(raw_listens) :
             LET r == resolve(Artists, Tracks, raw_listens[k].artist_name,
                              raw_listens[k].track_name)
             IN  /\ r.artists = Artists
                 /\ r.tracks = Tracks
                 /\ r.track_id = track_id(Artists, Tracks,
                                          raw_listens[k].artist_name,
                                          raw_listens[k].track_name)

\* one pair was resolved more than once, beside another pair of the same
\* artist name or track name
C23_Witness ==
    /\ dd_pc = "clean"
    /\ Len(Tracks) >= 2
    /\ \E k, l \in 1..Len(raw_listens) :
          /\ k # l
          /\ raw_listens[k].artist_name = raw_listens[l].artist_name
          /\ raw_listens[k].track_name = raw_listens[l].track_name
          /\ raw_listens[k].artist_name # UnknownPair[1]

-----------------------------------------------------------------------------
(* Properties of the aggregation *)

\* the canonical listens of a track, and its rows in TrackLengths
ListensOf(t) == { i \in 1..Len(canonical) : canonical[i].track_id = << t >> }

RowsOf(t) == { r \in TrackLengths : r.track_id = t }

RECURSIVE TotalFrequency(_)
TotalFrequency(rows) ==
    IF rows = {} THEN 0
    ELSE LET r == CHOOSE x \in rows : TRUE
         IN  r.frequency + TotalFrequency(rows \ { r })

\* C21 - Aggregation conservation: for every track there is exactly one
\* TrackLengths row per distinct ms_played among its canonical listens, its
\* frequency is the number of those listens (at least 1), the frequencies of
\* the track sum to its number of listens, percent_listens is the frequency
\* divided by that number, and skip is unset.
C21_AggregationConservation ==
    dd_pc = "aggregated" =>
        /\ \A r \in TrackLengths : r.track_id \in 1..Len(Tracks)
        /\ \A t \in 1..Len(Tracks) :
              /\ { r.ms_played : r \in RowsOf(t) }
                    = { canonical[i].ms_played : i \in ListensOf(t) }
              /\ Cardinality(RowsOf(t))
                    = Cardinality({ canonical[i].ms_played :
                                       i \in ListensOf(t) })
              /\ \A r \in RowsOf(t) :
                    /\ r.frequency =
                          Cardinality({ i \in ListensOf(t) :
                                 canonical[i].ms_played = r.ms_played })
                    /\ r.frequency >= 1
                    /\ r.percent_listens =
                          << r.frequency, Cardinality(ListensOf(t)) >>
                    /\ r.skip = None
              /\ TotalFrequency(RowsOf(t)) = Cardinality(ListensOf(t))

\* a track with two listens of one length and a listen of another, beside a
\* second track
C21_Witness ==
    /\ dd_pc = "aggregated"
    /\ Len(Tracks) >= 2
    /\ \E t \in 1..Len(Tracks) :
          /\ Cardinality(RowsOf(t)) = 2
          /\ \E r \in RowsOf(t) : r.frequency = 2

-----------------------------------------------------------------------------
(* Properties of preprocess.main *)

\* a step has finished
Finished(stage) == InSeq(stage, stage_log)

\* every finished run of step b comes after a finished run of step a
FinishedBefore(a, b) ==
    \A j \in 1..Len(stage_log) :
       stage_log[j] = b => \E i \in 1..(j - 1) : stage_log[i] = a

\* C24 - Pipeline ordering: in every preprocessing pass the artists/tracks
\* load finishes before the deduplication writes canonical listens, the
\* deduplication before the aggregation, and the calendar steps run in the
\* order list dates, identify missing dates, correct date anomalies; no step
\* starts before its predecessor has finished, and none runs twice.
C24_PipelineOrdering ==
    /\ FinishedBefore("load_artists_tracks", "clean_streaming_history")
    /\ FinishedBefore("clean_streaming_history", "load_track_lengths")
    /\ FinishedBefore("load_track_lengths", "list_dates")
    /\ FinishedBefore("list_dates", "identify_missing_dates")
    /\ FinishedBefore("identify_missing_dates", "correct_date_anomalies")
    /\ \A i, j \in 1..Len(stage_log) : stage_log[i] = stage_log[j] => i = j
    /\ main_pc = "clean_streaming_history" => Finished("load_artists_tracks")
    /\ main_pc = "load_track_lengths" => Finished("clean_streaming_history")
    /\ main_pc = "list_dates" => Finished("load_track_lengths")
    /\ main_pc = "identify_missing_dates" => Finished("list_dates")
    /\ main_pc = "correct_date_anomalies" => Finished("identify_missing_dates")
    /\ canonical # << >> => Finished("load_artists_tracks")
    /\ TrackLengths # {} => Finished("clean_streaming_history")
    /\ ListenDates # << >> => Finished("load_track_lengths")
    /\ (\E n \in 1..Len(ListenDates) : ListenDates[n].is_missing # None)
          => Finished("list_dates")

\* a pass over a project with listens ran all six steps
C24_Witness ==
    /\ main_pc = "return"
    /\ Len(stage_log) = 6
    /\ Tracks # << >>
    /\ TrackLengths # {}
    /\ \E n \in 1..Len(ListenDates) : ListenDates[n].is_missing # None

-----------------------------------------------------------------------------
(* Properties of the downloads list of the project window *)

\* the paths of the buttons of the layout, the stretch left out
Buttons == SubSeq(lyt_downloads_list, 1, Len(lyt_downloads_list) - 1)

\* C28 - Download list reconciliation: when update_downloads_list has
\* returned, the layout holds exactly one button per download, in the order
\* of the downloads list, and no button for a path absent from the list.
C28_DownloadListReconciled ==
    (gui_pc = "idle" /\ downloads # << >>) => Buttons = downloads

=============================================================================
